---- MODULE Spec2Model ----
(***************************************************************************)
(* State-machine model of the FarmBros e-commerce backend: the JWT auth    *)
(* middleware, the support-chat controller with its Socket.IO rooms, the   *)
(* product / order routes and the profile address routes.                  *)
(*                                                                         *)
(* Every HTTP handler and every socket event handler is one action.  The   *)
(* variable `last` records the request just served and its response, so    *)
(* that properties of a response are state predicates.                     *)
(***************************************************************************)
EXTENDS Integers, Sequences, FiniteSets, TLC

\* ------------------------------------------------------------------ bounds
NumUsers == 3
MaxAdmins == 2
NumSockets == 1
NumPeers == 2
MaxMsgs == 2
MaxSockMsgs == 1
NumProducts == 1
MaxStock == 2
MaxOrders == 1
MaxItems == 2
MaxHistory == 1
MaxReviews == 1
MaxAddresses == 2
MaxAddrIds == 3
MaxCartQty == 4
MaxInFlight == 2

\* ------------------------------------------------------------- identifiers
UserIds == 1..NumUsers
\* a well-formed ObjectId that names no document of the collection
UnknownId == NumUsers + 1
\* the null reference (receiverId of a broadcast, socket without identity)
NoUser == 0
SocketIds == 1..NumSockets
\* the sockets that exchange typing indicators
PeerIds == 1..NumPeers

\* Room names: a personal room is the user's id, 'admins' is the admin room.
Room(u) == <<"user", u>>
AdminsRoom == <<"admins", 0>>
NoRoom == <<"none", 0>>
\* io.emit: every connected socket
AllSockets == <<"all", 0>>

\* A bearer token: absent, carrying a signature that does not verify under
\* JWT_SECRET, or correctly signed; `id` is the id claim of its payload.
\* The forged token names user 1, who is an admin whenever there is one.
Tokens ==
  {[kind |-> "none", id |-> NoUser], [kind |-> "forged", id |-> 1]}
    \cup [kind : {"signed"}, id : UserIds \cup {UnknownId}]

\* Message bodies as character sequences.  The empty sequence also stands
\* for an absent messageBody: both are falsy in `!messageBody`.
Bodies == {<< >>, <<" ">>, <<" ", "h">>}

VARIABLES
  role,        \* role[u]: role of the persisted user u
  isAdminFlag, \* isAdminFlag[u]: the persisted isAdmin field of user u
  addresses,   \* addresses[u]: the persisted address list of user u
  nextAddrId,  \* the next address _id to hand out
  profile,     \* profile[u]: name, email, phone and picture of user u
  messages,    \* the messages collection in insertion (timestamp) order
  products,    \* products[p]: the persisted product p
  orders,      \* the orders collection
  cartItems,   \* the cart items collection: one document per user and product
  cart,        \* the items of the single cart document, NoCart before it exists
  orderReqs,   \* orderReqs[r]: the order request in flight in slot r
  addrReqs,    \* addrReqs[r]: the add-address request in flight in slot r
  readReqs,    \* readReqs[r]: the mark-as-read request in flight in slot r
  sendReqs,    \* sendReqs[r]: the send request in flight in slot r
  authReqs,    \* authReqs[r]: the 'authenticate' event being handled in slot r
  ioSet,       \* app.get('io') is defined
  connected,   \* the sockets currently connected
  rooms,       \* rooms[s]: the rooms socket s has joined
  sockUser,    \* sockUser[s]: socket.userId
  handshakes,  \* history: users whose valid token socket s has presented
  last         \* the operation just served and its outcome

userVars == <<role, isAdminFlag, addresses, nextAddrId, profile>>
shopVars == <<products, orders>>
sockVars == <<ioSet, connected, rooms, sockUser, handshakes>>
cartVars == <<cartItems, cart>>
chatReqs == <<readReqs, sendReqs, authReqs>>
reqVars == <<orderReqs, addrReqs, chatReqs>>
vars == <<role, isAdminFlag, addresses, nextAddrId, profile, messages,
          products, orders, cartItems, cart, orderReqs, addrReqs, readReqs,
          sendReqs, authReqs, ioSet, connected, rooms, sockUser, handshakes,
          last>>
\* everything a request can persist
db == <<role, isAdminFlag, addresses, profile, messages, products, orders,
        cartItems, cart>>

\* ------------------------------------------------------------------ helpers
RECURSIVE TrimLeft(_)
TrimLeft(b) ==
  IF b # << >> /\ Head(b) = " " THEN TrimLeft(Tail(b)) ELSE b

RECURSIVE TrimRight(_)
TrimRight(b) ==
  IF b # << >> /\ b[Len(b)] = " " THEN TrimRight(SubSeq(b, 1, Len(b) - 1))
  ELSE b

\* String.prototype.trim
Trim(b) == TrimRight(TrimLeft(b))

\* User.findById
UserExists(id) == id \in UserIds

\* jwt.verify(token, JWT_SECRET): returns the payload or throws
jwtVerify(tok) == tok.kind = "signed"

\* --------------------------------------------------------- auth middleware
\* The outcome of a middleware: status 0 stands for next().
Pass(u) == [status |-> 0, user |-> u]
Reject(code) == [status |-> code, user |-> NoUser]

auth_NoVerify(tok) ==
  IF tok.kind = "none" THEN Reject(401)
  ELSE IF ~UserExists(tok.id) THEN Reject(401)
  ELSE Pass(tok.id)

\* middleware/auth.js auth: 401 unless the token verifies and names a user
auth(tok) ==
  IF tok.kind = "none" THEN Reject(401)
  ELSE IF ~jwtVerify(tok) THEN Reject(401)
  ELSE IF ~UserExists(tok.id) THEN Reject(401)
  ELSE Pass(tok.id)

isAdmin_RoleUnchecked(u) ==
  IF u = NoUser THEN Reject(403) ELSE Pass(u)

\* middleware/auth.js isAdmin: 403 unless req.user.role is 'admin'
isAdmin(u) ==
  IF u = NoUser \/ role[u] # "admin" THEN Reject(403) ELSE Pass(u)

\* The middleware chain of a route: auth, then isAdmin on admin routes.
Chain(tok, adminOnly) ==
  LET a == auth(tok)
  IN IF a.status # 0 \/ ~adminOnly THEN a ELSE isAdmin(a.user)

\* ------------------------------------------------------ real-time channel
\* An emit that reaches only sockets that have authenticated.
Recipients_AuthenticatedOnly(room) ==
  IF room = AllSockets THEN {s \in connected : sockUser[s] # NoUser}
  ELSE {s \in connected : room \in rooms[s]}

\* The sockets an emit to `room` reaches.
Recipients(room) ==
  IF room = AllSockets THEN connected
  ELSE {s \in connected : room \in rooms[s]}

\* emitSocketEvent / emitToUser / emitToAdmins: nothing happens while
\* app.get('io') is unset.
Emit(event, room) ==
  IF ioSet /\ event # "none"
  THEN [event |-> event, room |-> room, delivered |-> Recipients(room)]
  ELSE [event |-> "none", room |-> NoRoom, delivered |-> {}]

\* The record of a served operation.
Outcome(op, tok, arg, status, ran, reqUser, em, body) ==
  [op |-> op, tok |-> tok, arg |-> arg, status |-> status, ran |-> ran,
   reqUser |-> reqUser, event |-> em.event, room |-> em.room,
   delivered |-> em.delivered, body |-> body]

NoEmit == [event |-> "none", room |-> NoRoom, delivered |-> {}]

\* What a client may send with 'authenticate': no payload at all, or a
\* payload whose token is absent, forged or signed.
AuthPayloads == Tokens \cup {[kind |-> "nodata", id |-> NoUser]}

socketAuth_NoVerify(data) ==
  IF data.kind \in {"nodata", "none"} THEN NoUser
  ELSE IF ~UserExists(data.id) THEN NoUser
  ELSE data.id

\* server.js 'authenticate': the user the handshake attaches, NoUser when it
\* ends in authentication_error
socketAuth(data) ==
  IF data.kind = "nodata" THEN NoUser
  ELSE IF data.kind = "none" THEN NoUser
  ELSE IF ~jwtVerify(data) THEN NoUser
  ELSE IF ~UserExists(data.id) THEN NoUser
  ELSE data.id

\* the rooms a successful handshake of user u joins
JoinedRooms(u) ==
  {Room(u)} \cup (IF role[u] = "admin" THEN {AdminsRoom} ELSE {})

\* io.on('connection')
Connect(s) ==
  /\ s \notin connected
  /\ connected' = connected \cup {s}
  /\ ioSet' = TRUE
  /\ rooms' = [rooms EXCEPT ![s] = {}]
  /\ sockUser' = [sockUser EXCEPT ![s] = NoUser]
  /\ handshakes' = [handshakes EXCEPT ![s] = {}]
  /\ last' = Outcome("connect", [kind |-> "none", id |-> NoUser], s, 0,
                     TRUE, NoUser, NoEmit, << >>)
  /\ UNCHANGED <<userVars, shopVars, messages, cartVars, reqVars>>

\* socket.on('disconnect'): the transport removes the socket from its rooms
Disconnect(s) ==
  /\ s \in connected
  /\ connected' = connected \ {s}
  /\ rooms' = [rooms EXCEPT ![s] = {}]
  /\ sockUser' = [sockUser EXCEPT ![s] = NoUser]
  /\ handshakes' = [handshakes EXCEPT ![s] = {}]
  /\ last' = Outcome("disconnect", [kind |-> "none", id |-> NoUser], s, 0,
                     TRUE, NoUser, NoEmit, << >>)
  /\ UNCHANGED <<userVars, shopVars, messages, ioSet, cartVars, reqVars>>

\* socket.on('authenticate')
Authenticate(s, data) ==
  /\ s \in connected
  /\ LET u == socketAuth(data)
         valid == data.kind = "signed" /\ data.id \in UserIds
     IN /\ handshakes' =
             [handshakes EXCEPT ![s] = @ \cup (IF valid THEN {data.id} ELSE {})]
        /\ IF u = NoUser
           THEN /\ UNCHANGED <<rooms, sockUser>>
                /\ last' = Outcome("authenticate", data, s, 0, TRUE, NoUser,
                                   [event |-> "authentication_error",
                                    room |-> NoRoom, delivered |-> {s}],
                                   << >>)
           ELSE /\ sockUser' = [sockUser EXCEPT ![s] = u]
                /\ rooms' = [rooms EXCEPT ![s] = @ \cup JoinedRooms(u)]
                /\ last' = Outcome("authenticate", data, s, 0, TRUE, u,
                                   [event |-> "authenticated",
                                    room |-> NoRoom, delivered |-> {s}],
                                   << >>)
  /\ UNCHANGED <<userVars, shopVars, messages, ioSet, connected, cartVars,
                 reqVars>>

\* What a client may send with 'typing' and 'stop_typing': NoUser stands for
\* a receiverId or senderId that is missing.
TypingPayloads ==
  [receiverId : {NoUser, 1, 2}, senderId : {NoUser, 1, 2}]
TypingEvents == {"user_typing", "user_stop_typing"}

\* `if (receiverId && senderId) socket.to(receiverId).emit(event, {senderId})`:
\* socket.to leaves out the emitting socket
typingRelay(s, data, event) ==
  IF data.receiverId # NoUser /\ data.senderId # NoUser
  THEN [event |-> event, room |-> Room(data.receiverId),
        delivered |-> Recipients(Room(data.receiverId)) \ {s}]
  ELSE NoEmit

\* socket.on('typing') and socket.on('stop_typing')
Typing(s, data, event) ==
  /\ s \in connected
  /\ LET em == typingRelay(s, data, event)
     IN last' = Outcome(IF event = "user_typing" THEN "typing"
                        ELSE "stop_typing",
                        [kind |-> "none", id |-> NoUser],
                        [sock |-> s, receiverId |-> data.receiverId,
                         senderId |-> data.senderId],
                        0, TRUE, sockUser[s], em,
                        IF em.event = "none" THEN << >>
                        ELSE <<data.senderId>>)
  /\ UNCHANGED <<userVars, shopVars, messages, sockVars, cartVars, reqVars>>

\* ------------------------------------------------------ message controller
\* A message document; its _id is its position in `messages`.
NewMessage(sender, receiver, body, type) ==
  [senderId |-> sender, receiverId |-> receiver, messageBody |-> Trim(body),
   isRead |-> FALSE, messageType |-> type]

\* What a handler hands back: the response status and body, the collection
\* as it leaves it, and the event it emits (to `room`).
Result(status, msgs, event, room, body) ==
  [status |-> status, msgs |-> msgs, event |-> event, room |-> room,
   body |-> body]

Fail(status) == Result(status, messages, "none", NoRoom, << >>)

\* `!messageBody || messageBody.trim() === ''`
BlankBody(body) == body = << >> \/ Trim(body) = << >>

\* User.findOne({ role: 'admin' }): the first admin in natural order
FirstAdmin ==
  IF \E u \in UserIds : role[u] = "admin"
  THEN CHOOSE u \in UserIds :
         role[u] = "admin" /\ \A v \in UserIds : role[v] = "admin" => u <= v
  ELSE NoUser

sendMessageToAdmin_NoAdminCheck(user, body, saveOk) ==
  IF BlankBody(body) THEN Fail(400)
  ELSE IF ~saveOk THEN Fail(500)
  ELSE Result(201,
              Append(messages, NewMessage(user, FirstAdmin, body, "private")),
              "new_message_to_admin", Room(FirstAdmin), <<Len(messages) + 1>>)

\* controllers/messageController sendMessageToAdmin
sendMessageToAdmin(user, body, saveOk) ==
  IF BlankBody(body) THEN Fail(400)
  ELSE IF FirstAdmin = NoUser THEN Fail(404)
  ELSE IF ~saveOk THEN Fail(500)
  ELSE Result(201,
              Append(messages, NewMessage(user, FirstAdmin, body, "private")),
              "new_message_to_admin", Room(FirstAdmin), <<Len(messages) + 1>>)

\* controllers/messageController sendMessageToUser
sendMessageToUser(user, userId, body, saveOk) ==
  IF BlankBody(body) THEN Fail(400)
  ELSE IF ~UserExists(userId) THEN Fail(404)
  ELSE IF ~saveOk THEN Fail(500)
  ELSE Result(201,
              Append(messages, NewMessage(user, userId, body, "private")),
              "new_message_from_admin", Room(userId), <<Len(messages) + 1>>)

\* controllers/messageController sendBroadcastMessage
sendBroadcastMessage(user, body, saveOk) ==
  IF BlankBody(body) THEN Fail(400)
  ELSE IF ~saveOk THEN Fail(500)
  ELSE Result(201,
              Append(messages, NewMessage(user, NoUser, body, "broadcast")),
              "new_broadcast_message", AllSockets, <<Len(messages) + 1>>)

\* Message ids a request may name: those stored and one that is not.
MessageIds == 1..(MaxMsgs + 1)

\* controllers/messageController markMessageAsRead and markMessageAsReadAdmin
\* (the two bodies are the same): `message.receiverId.toString()` throws on
\* the null receiver of a broadcast, and the catch answers 500.
markRead(user, messageId) ==
  IF messageId \notin 1..Len(messages) THEN Fail(404)
  ELSE IF messages[messageId].receiverId = NoUser THEN Fail(500)
  ELSE IF messages[messageId].receiverId # user THEN Fail(403)
  ELSE IF messages[messageId].isRead THEN Fail(200)
  ELSE Result(200, [messages EXCEPT ![messageId].isRead = TRUE],
              "message_read", Room(messages[messageId].senderId),
              <<messageId>>)

\* A request through its middleware chain and handler: `r` is what the
\* handler would do for req.user, used only when the chain lets it run.
Served(op, tok, arg, c, r) ==
  IF c.status # 0
  THEN Outcome(op, tok, arg, c.status, FALSE, NoUser, NoEmit, << >>)
  ELSE Outcome(op, tok, arg, r.status, TRUE, c.user,
               Emit(r.event, r.room), r.body)

\* POST /api/messages/admin
SendMessageToAdmin(tok, body, saveOk) ==
  /\ Len(messages) < MaxMsgs
  /\ LET c == Chain(tok, FALSE)
         r == sendMessageToAdmin(c.user, body, saveOk)
     IN /\ messages' = IF c.status = 0 THEN r.msgs ELSE messages
        /\ last' = Served("sendMessageToAdmin", tok, 0, c, r)
  /\ UNCHANGED <<userVars, shopVars, sockVars, cartVars, reqVars>>

\* POST /api/messages/user/:userId
SendMessageToUser(tok, userId, body, saveOk) ==
  /\ Len(messages) < MaxMsgs
  /\ LET c == Chain(tok, TRUE)
         r == sendMessageToUser(c.user, userId, body, saveOk)
     IN /\ messages' = IF c.status = 0 THEN r.msgs ELSE messages
        /\ last' = Served("sendMessageToUser", tok, userId, c, r)
  /\ UNCHANGED <<userVars, shopVars, sockVars, cartVars, reqVars>>

\* POST /api/messages/broadcast
SendBroadcastMessage(tok, body, saveOk) ==
  /\ Len(messages) < MaxMsgs
  /\ LET c == Chain(tok, TRUE)
         r == sendBroadcastMessage(c.user, body, saveOk)
     IN /\ messages' = IF c.status = 0 THEN r.msgs ELSE messages
        /\ last' = Served("sendBroadcastMessage", tok, 0, c, r)
  /\ UNCHANGED <<userVars, shopVars, sockVars, cartVars, reqVars>>

\* PUT /api/messages/:messageId/read
MarkMessageAsRead(tok, messageId) ==
  /\ LET c == Chain(tok, FALSE)
         r == markRead(c.user, messageId)
     IN /\ messages' = IF c.status = 0 THEN r.msgs ELSE messages
        /\ last' = Served("markMessageAsRead", tok, messageId, c, r)
  /\ UNCHANGED <<userVars, shopVars, sockVars, cartVars, reqVars>>

\* PUT /api/messages/admin/:messageId/read
MarkMessageAsReadAdmin(tok, messageId) ==
  /\ LET c == Chain(tok, TRUE)
         r == markRead(c.user, messageId)
     IN /\ messages' = IF c.status = 0 THEN r.msgs ELSE messages
        /\ last' = Served("markMessageAsReadAdmin", tok, messageId, c, r)
  /\ UNCHANGED <<userVars, shopVars, sockVars, cartVars, reqVars>>

\* --------------------------------------------------------- message history
DefaultPage == 1
DefaultLimit == 20

\* A numeric query-string parameter: absent, or text that parseInt reads as
\* the integer `val`.
Absent == [kind |-> "absent", val |-> 0]
Num(n) == [kind |-> "num", val |-> n]
QueryNums == {Absent} \cup {Num(n) : n \in {-1, 0, 1, 2}}
\* the messageType and isRead filters as sent
TypeFilters == {"absent", "private", "broadcast"}
ReadFilters == {"absent", "true", "false"}
HistoryQueries ==
  [page : QueryNums, limit : QueryNums, messageType : TypeFilters,
   isRead : ReadFilters]
PageQueries ==
  [page : QueryNums, limit : QueryNums, messageType : {"absent"},
   isRead : {"absent"}]
\* the history requests the model issues
IssuedQueries ==
  {[page |-> Absent, limit |-> Absent, messageType |-> "absent",
    isRead |-> "absent"],
   [page |-> Num(2), limit |-> Num(1), messageType |-> "private",
    isRead |-> "false"],
   [page |-> Num(-1), limit |-> Num(1), messageType |-> "broadcast",
    isRead |-> "absent"]}

\* `parseInt(x) || d`: NaN and 0 are falsy
ParseOr(q, d) == IF q.kind = "absent" \/ q.val = 0 THEN d ELSE q.val

\* Math.ceil(total / limit) for an integer limit other than 0
Ceil(total, limit) ==
  IF limit > 0 THEN (total + limit - 1) \div limit
  ELSE -(total \div (-limit))

\* the ids of S in descending order: sort({ timestamp: -1 })
RECURSIVE Desc(_)
Desc(S) ==
  IF S = {} THEN << >>
  ELSE LET m == CHOOSE x \in S : \A y \in S : y <= x
       IN <<m>> \o Desc(S \ {m})

Abs(n) == IF n < 0 THEN -n ELSE n
Min(a, b) == IF a < b THEN a ELSE b

\* .skip(skip).limit(limit) of a cursor: a negative limit is served as its
\* absolute value.  Only called with skip >= 0.
Window(ids, skip, limit) ==
  SubSeq(ids, skip + 1, Min(Len(ids), skip + Abs(limit)))

\* the stored documents of a list of ids, each with its _id
Docs(ids) == [k \in 1..Len(ids) |-> [id |-> ids[k], doc |-> messages[ids[k]]]]

\* `$or: [{ senderId: userId }, { receiverId: userId }]`
Involves(i, user) ==
  messages[i].senderId = user \/ messages[i].receiverId = user

TypeMatches(i, f) == f = "absent" \/ messages[i].messageType = f
ReadMatches(i, f) == f = "absent" \/ messages[i].isRead = (f = "true")

\* The answer of a paginated find over the matching ids: a negative skip is
\* rejected by the database and the catch answers 500.
Paginated(matching, q, extra) ==
  LET page == ParseOr(q.page, DefaultPage)
      limit == ParseOr(q.limit, DefaultLimit)
      skip == (page - 1) * limit
      total == Cardinality(matching)
  IN IF skip < 0 THEN Fail(500)
     ELSE Result(200, messages, "none", NoRoom,
                 [messages |-> Docs(Window(Desc(matching), skip, limit)),
                  page |-> page, limit |-> limit, total |-> total,
                  pages |-> Ceil(total, limit), extra |-> extra])

\* controllers/messageController getMyChatHistory over the documents S
getMyChatHistoryIn(S, user, q) ==
  Paginated({i \in S : Involves(i, user)
                       /\ messages[i].messageType = "private"}, q, << >>)

\* the $group statistics of getAllMyMessages
MyStatistics(S, user) ==
  LET mine == {i \in S : Involves(i, user)}
  IN IF mine = {} THEN <<0, 0, 0, 0>>
     ELSE <<Cardinality(mine),
            Cardinality({i \in mine : messages[i].receiverId = user
                                      /\ ~messages[i].isRead}),
            Cardinality({i \in mine : messages[i].messageType = "private"}),
            Cardinality({i \in mine : messages[i].messageType = "broadcast"})>>

getAllMyMessagesIn_FilterReplacesOwner(S, user, q) ==
  Paginated({i \in S : /\ (q.messageType = "absent" => Involves(i, user))
                       /\ TypeMatches(i, q.messageType)
                       /\ ReadMatches(i, q.isRead)},
            q, MyStatistics(S, user))

\* controllers/messageController getAllMyMessages over the documents S
getAllMyMessagesIn(S, user, q) ==
  Paginated({i \in S : /\ Involves(i, user)
                       /\ TypeMatches(i, q.messageType)
                       /\ ReadMatches(i, q.isRead)},
            q, MyStatistics(S, user))

StoredIds == 1..Len(messages)

\* GET /api/messages/my-chats
GetMyChatHistory(tok, q) ==
  /\ LET c == Chain(tok, FALSE)
         r == getMyChatHistoryIn(StoredIds, c.user, q)
     IN last' = Served("getMyChatHistory", tok, q, c, r)
  /\ UNCHANGED <<userVars, shopVars, sockVars, messages, cartVars, reqVars>>

\* GET /api/messages/my-messages
GetAllMyMessages(tok, q) ==
  /\ LET c == Chain(tok, FALSE)
         r == getAllMyMessagesIn(StoredIds, c.user, q)
     IN last' = Served("getAllMyMessages", tok, q, c, r)
  /\ UNCHANGED <<userVars, shopVars, sockVars, messages, cartVars, reqVars>>

\* ----------------------------------------------------- admin message views
\* the query of GET /admin/conversations
ConversationQueries ==
  [unreadOnly : {"absent", "true"}, page : QueryNums, limit : QueryNums]
\* the queries of the admin views the model issues
IssuedAdminQueries ==
  {[unreadOnly |-> "absent", page |-> Absent, limit |-> Absent],
   [unreadOnly |-> "true", page |-> Num(2), limit |-> Num(1)],
   [unreadOnly |-> "absent", page |-> Num(0), limit |-> Num(-1)]}

\* the `page = 1, limit = 20` destructuring defaults: only an absent
\* parameter takes the default
DefaultTo(q, d) == IF q.kind = "absent" THEN d ELSE q.val

\* the other party of a private message, seen from the requesting admin
Partner(i, user) ==
  IF messages[i].senderId = user THEN messages[i].receiverId
  ELSE messages[i].senderId

\* controllers/messageController getAdminConversations: $skip rejects a
\* negative number and $limit a number below 1, and the catch answers 500
getAdminConversations(user, q) ==
  LET page == DefaultTo(q.page, DefaultPage)
      limit == DefaultTo(q.limit, DefaultLimit)
      skip == (page - 1) * limit
      matching == {i \in StoredIds :
                     /\ messages[i].messageType = "private"
                     /\ q.unreadOnly = "true" => ~messages[i].isRead}
      lastOf(k) == CHOOSE i \in matching :
                     /\ Partner(i, user) = k
                     /\ \A j \in matching : Partner(j, user) = k => j <= i
      keys == {Partner(i, user) : i \in matching}
      sorted == Desc({lastOf(k) : k \in keys})
      shown == Window(sorted, skip, limit)
      conv(i) ==
        [partner |-> Partner(i, user), lastMessage |-> i,
         unreadCount |->
           Cardinality({j \in matching :
                          /\ Partner(j, user) = Partner(i, user)
                          /\ messages[j].receiverId = user
                          /\ ~messages[j].isRead}),
         totalMessages |->
           Cardinality({j \in matching :
                          Partner(j, user) = Partner(i, user)})]
  IN IF skip < 0 \/ limit < 1 THEN Fail(500)
     ELSE Result(200, messages, "none", NoRoom,
                 [conversations |-> [k \in 1..Len(shown) |-> conv(shown[k])],
                  page |-> page, limit |-> limit,
                  total |-> Cardinality(keys),
                  pages |-> Ceil(Cardinality(keys), limit)])

\* the $group statistics of getAllMessages
AllStatistics(matching, user) ==
  IF matching = {} THEN <<0, 0, 0, 0, 0, 0>>
  ELSE <<Cardinality(matching),
         Cardinality({i \in matching : ~messages[i].isRead}),
         Cardinality({i \in matching : messages[i].messageType = "private"}),
         Cardinality({i \in matching :
                        messages[i].messageType = "broadcast"}),
         Cardinality({i \in matching : messages[i].senderId # user}),
         Cardinality({i \in matching : messages[i].receiverId # user})>>

\* controllers/messageController getAllMessages (the senderId, receiverId
\* and date filters are left absent)
getAllMessages(user, q) ==
  LET matching == {i \in StoredIds : /\ TypeMatches(i, q.messageType)
                                     /\ ReadMatches(i, q.isRead)}
  IN Paginated(matching, q, AllStatistics(matching, user))

\* controllers/messageController getSpecificUserChatHistory
getSpecificUserChatHistory(user, userId, q) ==
  IF ~UserExists(userId) THEN Fail(404)
  ELSE Paginated({i \in StoredIds :
                    /\ messages[i].messageType = "private"
                    /\ \/ /\ messages[i].senderId = user
                          /\ messages[i].receiverId = userId
                       \/ /\ messages[i].senderId = userId
                          /\ messages[i].receiverId = user},
                 q, userId)

\* GET /api/messages/admin/conversations
GetAdminConversations(tok, q) ==
  /\ LET c == Chain(tok, TRUE)
         r == getAdminConversations(c.user, q)
     IN last' = Served("getAdminConversations", tok, q, c, r)
  /\ UNCHANGED <<userVars, shopVars, sockVars, messages, cartVars, reqVars>>

\* GET /api/messages/admin/all-messages
GetAllMessages(tok, q) ==
  /\ LET c == Chain(tok, TRUE)
         r == getAllMessages(c.user, q)
     IN last' = Served("getAllMessages", tok, q, c, r)
  /\ UNCHANGED <<userVars, shopVars, sockVars, messages, cartVars, reqVars>>

\* GET /api/messages/admin/chats/:userId
GetSpecificUserChatHistory(tok, userId, q) ==
  /\ LET c == Chain(tok, TRUE)
         r == getSpecificUserChatHistory(c.user, userId, q)
     IN last' = Served("getSpecificUserChatHistory", tok,
                       [userId |-> userId, q |-> q], c, r)
  /\ UNCHANGED <<userVars, shopVars, sockVars, messages, cartVars, reqVars>>

\* ------------------------------------------------------------ user model
\* models/User pre('save'): isAdmin is recomputed from role
preSaveUser(doc) == [doc EXCEPT !.isAdmin = (doc.role = "admin")]

\* Product ids a request may name: products[p] for p <= Len(products), an
\* id above names no document.  A deleted product leaves its id behind.
ProductIds == 1..NumProducts
Deleted ==
  [exists |-> FALSE, stock |-> 0, minOrderQuantity |-> 1,
   maxOrderQuantity |-> 1, quantityHistory |-> << >>, initialStock |-> 0,
   reviews |-> << >>]

\* ---------------------------------------------------------- product model
\* Product.findById
ProductExists(p) == p \in 1..Len(products) /\ products[p].exists

HistoryTypes == {"added", "removed", "sold", "returned"}

\* the schema validators save() runs on a product document
ProductValid(doc) ==
  /\ doc.stock >= 0
  /\ doc.minOrderQuantity >= 1
  /\ doc.maxOrderQuantity >= 1
  /\ \A k \in 1..Len(doc.quantityHistory) :
       doc.quantityHistory[k].type \in HistoryTypes

\* models/Product pre('save'): maxOrderQuantity is raised to the minimum
preSaveProduct(doc) ==
  IF doc.maxOrderQuantity < doc.minOrderQuantity
  THEN [doc EXCEPT !.maxOrderQuantity = doc.minOrderQuantity]
  ELSE doc

\* models/Product isQuantityAvailable
isQuantityAvailable(doc, quantity) ==
  /\ doc.stock >= quantity
  /\ quantity >= doc.minOrderQuantity
  /\ quantity <= doc.maxOrderQuantity

\* What a product handler hands back: the status and the collection.
ShopResult(status, prods) == [status |-> status, prods |-> prods]

\* routes/products POST /: new Product(req.body).save(); initialStock is
\* history, the stock the product was created with
createProduct(body) ==
  LET doc == [exists |-> TRUE, stock |-> body.stock,
              minOrderQuantity |-> body.minOrderQuantity,
              maxOrderQuantity |-> body.maxOrderQuantity,
              quantityHistory |-> << >>, initialStock |-> body.stock,
              reviews |-> << >>]
  IN IF ~ProductValid(doc) THEN ShopResult(400, products)
     ELSE ShopResult(201, Append(products, preSaveProduct(doc)))

\* $set of the fields the body names
Patched(doc, body) ==
  [f \in DOMAIN doc |-> IF f \in DOMAIN body THEN body[f] ELSE doc[f]]

\* routes/products PATCH /:id: findByIdAndUpdate(id, req.body) runs neither
\* the validators nor the save hook
updateProduct(id, body) ==
  IF ~ProductExists(id) THEN ShopResult(404, products)
  ELSE ShopResult(200, [products EXCEPT ![id] = Patched(@, body)])

\* models/Product updateStock without the push to quantityHistory
updateStock_NoHistory(doc, quantity, type) ==
  IF type \in {"removed", "sold"} /\ doc.stock < quantity
  THEN [ok |-> FALSE, doc |-> doc]
  ELSE LET stock == IF type \in {"removed", "sold"}
                    THEN doc.stock - quantity
                    ELSE IF type \in {"added", "returned"}
                         THEN doc.stock + quantity
                         ELSE doc.stock
           new == [doc EXCEPT !.stock = stock]
       IN IF ProductValid(new)
          THEN [ok |-> TRUE, doc |-> preSaveProduct(new)]
          ELSE [ok |-> FALSE, doc |-> doc]

\* models/Product updateStock: the changed document, or the error thrown by
\* the method or by the validators of its save()
updateStock(doc, quantity, type) ==
  IF type \in {"removed", "sold"} /\ doc.stock < quantity
  THEN [ok |-> FALSE, doc |-> doc]
  ELSE LET stock == IF type \in {"removed", "sold"}
                    THEN doc.stock - quantity
                    ELSE IF type \in {"added", "returned"}
                         THEN doc.stock + quantity
                         ELSE doc.stock
           new == [doc EXCEPT !.stock = stock,
                              !.quantityHistory =
                                 Append(@, [type |-> type,
                                            quantity |-> quantity])]
       IN IF ProductValid(new)
          THEN [ok |-> TRUE, doc |-> preSaveProduct(new)]
          ELSE [ok |-> FALSE, doc |-> doc]

\* routes/products PATCH /:id/stock
patchStock(id, quantity, type) ==
  IF ~ProductExists(id) THEN ShopResult(404, products)
  ELSE LET u == updateStock(products[id], quantity, type)
       IN IF u.ok THEN ShopResult(200, [products EXCEPT ![id] = u.doc])
          ELSE ShopResult(400, products)

\* routes/products DELETE /:id
deleteProduct(id) ==
  IF ~ProductExists(id) THEN ShopResult(404, products)
  ELSE ShopResult(200, [products EXCEPT ![id] = Deleted])

\* A product request through auth and isAdmin.
ServedShop(op, tok, arg, c, r) ==
  IF c.status # 0
  THEN Outcome(op, tok, arg, c.status, FALSE, NoUser, NoEmit, << >>)
  ELSE Outcome(op, tok, arg, r.status, TRUE, c.user, NoEmit, << >>)

\* the bodies of POST /api/products the model sends
StockInputs == {-1, MaxStock - 1}
ProductBodies ==
  [stock : StockInputs, minOrderQuantity : {0, 1, 2},
   maxOrderQuantity : {1, 2}]
\* the bodies of PATCH /api/products/:id the model sends
PatchBodies ==
  {[stock |-> -1], [stock |-> MaxStock], [maxOrderQuantity |-> 1],
   [minOrderQuantity |-> 2]}
Quantities == {-1, 1, 2}

\* routes/products POST /:id/reviews: the review is pushed and the product
\* saved, which runs the validators (a rating is from 1 to 5) and the save
\* hook; the derived average rating is not kept in the model
addReview(user, id, rating) ==
  IF ~ProductExists(id) THEN ShopResult(404, products)
  ELSE LET new == [products[id] EXCEPT
                     !.reviews = Append(@, [user |-> user,
                                            rating |-> rating])]
       IN IF rating \in 1..5 /\ ProductValid(new)
          THEN ShopResult(201, [products EXCEPT ![id] = preSaveProduct(new)])
          ELSE ShopResult(400, products)

\* the ratings the review requests carry
Ratings == {0, 5}

\* POST /api/products/:id/reviews
AddReview(tok, id, rating) ==
  /\ ProductExists(id) => Len(products[id].reviews) < MaxReviews
  /\ LET c == Chain(tok, FALSE)
         r == addReview(c.user, id, rating)
     IN /\ products' = IF c.status = 0 THEN r.prods ELSE products
        /\ last' = ServedShop("addReview", tok,
                              [id |-> id, rating |-> rating], c, r)
  /\ UNCHANGED <<userVars, sockVars, messages, orders, cartVars, reqVars>>

\* POST /api/products
CreateProduct(tok, body) ==
  /\ Len(products) < NumProducts
  /\ LET c == Chain(tok, TRUE)
         r == createProduct(body)
     IN /\ products' = IF c.status = 0 THEN r.prods ELSE products
        /\ last' = ServedShop("createProduct", tok, body, c, r)
  /\ UNCHANGED <<userVars, sockVars, messages, orders, cartVars, reqVars>>

\* PATCH /api/products/:id
UpdateProduct(tok, id, body) ==
  /\ LET c == Chain(tok, TRUE)
         r == updateProduct(id, body)
     IN /\ products' = IF c.status = 0 THEN r.prods ELSE products
        /\ last' = ServedShop("updateProduct", tok,
                              [id |-> id, body |-> body], c, r)
  /\ UNCHANGED <<userVars, sockVars, messages, orders, cartVars, reqVars>>

\* PATCH /api/products/:id/stock
PatchStock(tok, id, quantity, type) ==
  /\ ProductExists(id) =>
       /\ Len(products[id].quantityHistory) < MaxHistory
       /\ patchStock(id, quantity, type).prods[id].stock <= MaxStock
  /\ LET c == Chain(tok, TRUE)
         r == patchStock(id, quantity, type)
     IN /\ products' = IF c.status = 0 THEN r.prods ELSE products
        /\ last' = ServedShop("patchStock", tok,
                              [id |-> id, quantity |-> quantity,
                               type |-> type], c, r)
  /\ UNCHANGED <<userVars, sockVars, messages, orders, cartVars, reqVars>>

\* DELETE /api/products/:id
DeleteProduct(tok, id) ==
  /\ LET c == Chain(tok, TRUE)
         r == deleteProduct(id)
     IN /\ products' = IF c.status = 0 THEN r.prods ELSE products
        /\ last' = ServedShop("deleteProduct", tok, id, c, r)
  /\ UNCHANGED <<userVars, sockVars, messages, orders, cartVars, reqVars>>

\* ------------------------------------------------------------ order routes
\* the first line item the validation loop stops at, 0 when it passes all
RECURSIVE FirstRejected(_, _)
FirstRejected(items, k) ==
  IF k > Len(items) THEN 0
  ELSE IF \/ ~ProductExists(items[k].product)
          \/ products[items[k].product].stock < items[k].quantity
       THEN k
       ELSE FirstRejected(items, k + 1)

\* the `$inc: { stock: -item.quantity }` writes of items k.., one by one
RECURSIVE Decremented(_, _, _)
Decremented(prods, items, k) ==
  IF k > Len(items) THEN prods
  ELSE Decremented(
         [prods EXCEPT ![items[k].product].stock = @ - items[k].quantity],
         items, k + 1)

\* the validators of order.save(): every line item has quantity >= 1
OrderValid(items) == \A k \in 1..Len(items) : items[k].quantity >= 1

\* What the order handler hands back.
OrderResult(status, prods, ords) ==
  [status |-> status, prods |-> prods, ords |-> ords]

\* routes/orders POST / with the decrements undone when the save fails
createOrder_RollsBack(req, saveOk) ==
  IF ~req.addressOk \/ ~req.paymentOk THEN OrderResult(400, products, orders)
  ELSE LET bad == FirstRejected(req.items, 1)
       IN IF bad # 0
          THEN OrderResult(IF ProductExists(req.items[bad].product)
                           THEN 400 ELSE 404,
                           products, orders)
          ELSE IF OrderValid(req.items) /\ saveOk
               THEN OrderResult(201, Decremented(products, req.items, 1),
                                Append(orders, [items |-> req.items]))
               ELSE OrderResult(400, products, orders)

\* routes/orders POST / with each line decremented as soon as it is checked
createOrder_WritesAsItChecks(req, saveOk) ==
  IF ~req.addressOk \/ ~req.paymentOk THEN OrderResult(400, products, orders)
  ELSE LET bad == FirstRejected(req.items, 1)
       IN IF bad # 0
          THEN OrderResult(IF ProductExists(req.items[bad].product)
                           THEN 400 ELSE 404,
                           Decremented(products,
                                       SubSeq(req.items, 1, bad - 1), 1),
                           orders)
          ELSE LET prods == Decremented(products, req.items, 1)
               IN IF OrderValid(req.items) /\ saveOk
                  THEN OrderResult(201, prods,
                                   Append(orders, [items |-> req.items]))
                  ELSE OrderResult(400, prods, orders)

\* routes/orders POST /: every line is checked against the stock as stored,
\* then every line is decremented, then the order is saved; a failing save
\* answers 400 and undoes nothing
createOrder(req, saveOk) ==
  IF ~req.addressOk \/ ~req.paymentOk THEN OrderResult(400, products, orders)
  ELSE LET bad == FirstRejected(req.items, 1)
       IN IF bad # 0
          THEN OrderResult(IF ProductExists(req.items[bad].product)
                           THEN 400 ELSE 404,
                           products, orders)
          ELSE LET prods == Decremented(products, req.items, 1)
               IN IF OrderValid(req.items) /\ saveOk
                  THEN OrderResult(201, prods,
                                   Append(orders, [items |-> req.items]))
                  ELSE OrderResult(400, prods, orders)

\* the line items and the order requests the model sends
ItemChoices == [product : 1..(NumProducts + 1), quantity : Quantities]
RECURSIVE ItemLists(_)
ItemLists(n) ==
  IF n = 0 THEN {<< >>}
  ELSE LET shorter == ItemLists(n - 1)
       IN shorter \cup {Append(l, it) : l \in {x \in shorter : Len(x) = n - 1},
                                        it \in ItemChoices}
OrderRequests ==
  {[items |-> l, addressOk |-> TRUE, paymentOk |-> TRUE] :
     l \in ItemLists(MaxItems)}
    \cup {[items |-> <<[product |-> 1, quantity |-> 1]>>,
           addressOk |-> a, paymentOk |-> b] : a, b \in BOOLEAN}

\* POST /api/orders (the route has no auth middleware)
CreateOrder(req, saveOk) ==
  /\ Len(orders) < MaxOrders
  /\ LET r == createOrder(req, saveOk)
     IN /\ \A p \in 1..Len(r.prods) : r.prods[p].stock <= MaxStock
        /\ products' = r.prods
        /\ orders' = r.ords
        /\ last' = Outcome("createOrder", [kind |-> "none", id |-> NoUser],
                           [items |-> req.items, addressOk |-> req.addressOk,
                            paymentOk |-> req.paymentOk, saveOk |-> saveOk],
                           r.status, TRUE, NoUser, NoEmit, << >>)
  /\ UNCHANGED <<userVars, sockVars, messages, cartVars, reqVars>>

\* ------------------------------------------------- order requests in flight
\* POST /api/orders as the steps its awaits cut it into: one findById per
\* line item, then one findByIdAndUpdate per line item, then order.save().
\* A slot holds one request from its arrival to its answer.
Slots == 1..MaxInFlight
IdleOrder ==
  [pc |-> "idle", items |-> << >>, k |-> 0, seen |-> << >>, status |-> 0]

\* a decrement that is applied only while the stock covers the quantity
IncStock_IfEnough(prods, item) ==
  IF ProductExists(item.product) /\ prods[item.product].stock >= item.quantity
  THEN [prods EXCEPT ![item.product].stock = @ - item.quantity]
  ELSE prods

\* findByIdAndUpdate(item.product, { $inc: { stock: -item.quantity } })
IncStock(prods, item) ==
  IF ProductExists(item.product)
  THEN [prods EXCEPT ![item.product].stock = @ - item.quantity]
  ELSE prods

StepOutcome(op, r, status) ==
  Outcome(op, [kind |-> "none", id |-> NoUser], r, status, TRUE, NoUser,
          NoEmit, << >>)

\* the request arrives: address and payment method are validated
OrderBegin(r, req) ==
  /\ orderReqs[r].pc = "idle"
  /\ LET ok == req.addressOk /\ req.paymentOk
         pc == IF ~ok THEN "done"
               ELSE IF req.items = << >> THEN "save" ELSE "check"
     IN /\ orderReqs' =
             [orderReqs EXCEPT ![r] =
                [pc |-> pc, items |-> req.items, k |-> 1, seen |-> << >>,
                 status |-> IF ok THEN 0 ELSE 400]]
        /\ last' = StepOutcome("orderBegin", r, IF ok THEN 0 ELSE 400)
  /\ UNCHANGED <<userVars, shopVars, cartVars, addrReqs,
                 chatReqs, sockVars, messages>>

\* one round of the validation loop: the product is read and its stock is
\* compared with the quantity of the line item
OrderCheck(r) ==
  /\ orderReqs[r].pc = "check"
  /\ LET q == orderReqs[r]
         item == q.items[q.k]
         status == IF ~ProductExists(item.product) THEN 404
                   ELSE IF products[item.product].stock < item.quantity
                        THEN 400 ELSE 0
     IN /\ orderReqs' =
             [orderReqs EXCEPT ![r] =
                IF status # 0
                THEN [q EXCEPT !.pc = "done", !.status = status]
                ELSE [q EXCEPT
                        !.seen = Append(@, products[item.product].stock),
                        !.k = IF q.k = Len(q.items) THEN 1 ELSE q.k + 1,
                        !.pc = IF q.k = Len(q.items) THEN "decrement"
                               ELSE "check"]]
        /\ last' = StepOutcome("orderCheck", r, status)
  /\ UNCHANGED <<userVars, shopVars, cartVars, addrReqs,
                 chatReqs, sockVars, messages>>

\* one round of the stock update loop
OrderDecrement(r) ==
  /\ orderReqs[r].pc = "decrement"
  /\ LET q == orderReqs[r]
     IN /\ products' = IncStock(products, q.items[q.k])
        /\ orderReqs' =
             [orderReqs EXCEPT ![r] =
                [q EXCEPT !.k = IF q.k = Len(q.items) THEN 1 ELSE q.k + 1,
                          !.pc = IF q.k = Len(q.items) THEN "save"
                                 ELSE "decrement"]]
        /\ last' = StepOutcome("orderDecrement", r, 0)
  /\ UNCHANGED <<userVars, orders, cartVars, addrReqs,
                 chatReqs, sockVars, messages>>

\* order.save() and the answer
OrderSave(r, saveOk) ==
  /\ orderReqs[r].pc = "save"
  /\ LET q == orderReqs[r]
         ok == OrderValid(q.items) /\ saveOk
         status == IF ok THEN 201 ELSE 400
     IN /\ orders' = IF ok THEN Append(orders, [items |-> q.items])
                     ELSE orders
        /\ orderReqs' =
             [orderReqs EXCEPT ![r] = [q EXCEPT !.pc = "done",
                                                !.status = status]]
        /\ last' = StepOutcome("orderSave", r, status)
  /\ UNCHANGED <<userVars, products, cartVars, addrReqs,
                 chatReqs, sockVars, messages>>

\* the order requests that meet in flight: all for product 1
RaceRequests ==
  {[items |-> l, addressOk |-> TRUE, paymentOk |-> TRUE] :
     l \in {<<[product |-> 1, quantity |-> 1]>>,
            <<[product |-> 1, quantity |-> 1],
              [product |-> 1, quantity |-> 1]>>,
            <<[product |-> NumProducts + 1, quantity |-> 1]>>}}
    \cup {[items |-> <<[product |-> 1, quantity |-> 1]>>,
           addressOk |-> FALSE, paymentOk |-> TRUE]}

\* ------------------------------------------------------------- cart routes
\* the single cart document of the router implementation
NoCart == [exists |-> FALSE, items |-> << >>]

\* What a cart handler hands back.
CartResult(status, items, doc) ==
  [status |-> status, items |-> items, doc |-> doc]
CartFail(status) == CartResult(status, cartItems, cart)

\* CartItem.findOne({ user, product })
CartItemOf(user, productId) ==
  {c \in cartItems : c.user = user /\ c.product = productId}

\* controllers/cartController addToCart: productId 0 stands for a missing
\* productId; the product's stock is not looked at
addToCart(user, productId, quantity) ==
  IF productId = 0 THEN CartFail(400)
  ELSE IF quantity < 1 THEN CartFail(400)
  ELSE IF ~ProductExists(productId) THEN CartFail(404)
  ELSE LET old == CartItemOf(user, productId)
           held == IF old = {} THEN 0 ELSE (CHOOSE c \in old : TRUE).quantity
       IN CartResult(200,
                     (cartItems \ old)
                       \cup {[user |-> user, product |-> productId,
                              quantity |-> held + quantity]},
                     cart)

\* the position of productId in the items of the cart document, 0 if none
ItemIndex(items, productId) ==
  IF \E k \in 1..Len(items) : items[k].product = productId
  THEN CHOOSE k \in 1..Len(items) : items[k].product = productId
  ELSE 0

\* routes/cart POST /items of the router implementation with the cart
\* document: the save runs the validators of the items (quantity >= 1)
postCartItems(productId, quantity) ==
  IF ~ProductExists(productId) THEN CartFail(404)
  ELSE IF products[productId].stock < quantity THEN CartFail(400)
  ELSE LET k == ItemIndex(cart.items, productId)
           items == IF k # 0
                    THEN [cart.items EXCEPT ![k].quantity = @ + quantity]
                    ELSE Append(cart.items, [product |-> productId,
                                             quantity |-> quantity])
       IN IF \E j \in 1..Len(items) : items[j].quantity < 1
          THEN CartFail(400)
          ELSE CartResult(200, cartItems,
                          [exists |-> TRUE, items |-> items])

\* the product ids and quantities the cart requests carry
CartProductIds == 0..(NumProducts + 1)
CartQuantities == {-1, 0, 1, MaxStock + 1}

\* POST /api/cart/items, router with auth and the controller
AddToCart(tok, productId, quantity) ==
  /\ LET c == Chain(tok, FALSE)
         r == addToCart(c.user, productId, quantity)
     IN /\ \A i \in r.items : i.quantity <= MaxCartQty
        /\ cartItems' = IF c.status = 0 THEN r.items ELSE cartItems
        /\ last' = ServedShop("addToCart", tok,
                              [productId |-> productId,
                               quantity |-> quantity], c, r)
  /\ UNCHANGED <<userVars, shopVars, sockVars, messages, cart, reqVars>>

\* POST /api/cart/items, router without auth
PostCartItems(productId, quantity) ==
  /\ LET r == postCartItems(productId, quantity)
     IN /\ \A k \in 1..Len(r.doc.items) : r.doc.items[k].quantity <= MaxCartQty
        /\ cart' = r.doc
        /\ last' = Outcome("postCartItems", [kind |-> "none", id |-> NoUser],
                           [productId |-> productId, quantity |-> quantity],
                           r.status, TRUE, NoUser, NoEmit, << >>)
  /\ UNCHANGED <<userVars, shopVars, sockVars, messages, cartItems, reqVars>>

\* ---------------------------------------------------------- profile routes
\* An e-mail address: who it belongs to, whether it is written in capitals and
\* whether it matches the route's pattern; local = 0 is the empty string.
Email(local, upper, wellFormed) ==
  [local |-> local, upper |-> upper, wellFormed |-> wellFormed]
NoEmail == Email(0, FALSE, FALSE)
toLowerCase(e) == [e EXCEPT !.upper = FALSE]
emailRegex(e) == e.wellFormed
\* A phone number is a string of digits, given by its length; the route's
\* pattern wants ten characters or more.
PhoneMinLen == 10
phoneRegex(p) == p >= PhoneMinLen

\* the documents the users collection starts with
InitialProfile(u) ==
  [name |-> <<"n", "n">>, email |-> Email(u, FALSE, TRUE), phone |-> 0,
   profilePicture |-> 0]

\* the fields of a profile body that carry a value
Given(body) ==
  {f \in DOMAIN body :
     IF f = "name" THEN body[f] # << >>
     ELSE IF f = "email" THEN body[f] # NoEmail
     ELSE IF f = "role" THEN body[f] # ""
     ELSE body[f] # 0}
NoUpdates == [f \in {} |-> 0]

\* What the profile handler hands back: the status and the $set it wrote.
ProfileResult(status, updates) == [status |-> status, updates |-> updates]
\* What an address handler hands back: the status and the address lists.
AddressResult(status, addrs) == [status |-> status, addrs |-> addrs]
ProfileFail(status) == AddressResult(status, addresses)

\* routes/profile PUT /:_id with the whole body handed to the $set
updateProfile_WholeBody(user, id, body) ==
  IF ~UserExists(id) THEN ProfileResult(404, NoUpdates)
  ELSE IF user # id THEN ProfileResult(403, NoUpdates)
  ELSE IF Given(body) = {} THEN ProfileResult(400, NoUpdates)
  ELSE ProfileResult(200, [f \in Given(body) |-> body[f]])

\* routes/profile PUT /:_id: only name, email, phone and profilePicture of
\* the body reach the $set
updateProfile(user, id, body) ==
  IF ~UserExists(id) THEN ProfileResult(404, NoUpdates)
  ELSE IF user # id THEN ProfileResult(403, NoUpdates)
  ELSE IF body.name # << >> /\ Len(Trim(body.name)) < 2
       THEN ProfileResult(400, NoUpdates)
  ELSE IF body.email # NoEmail /\ ~emailRegex(body.email)
       THEN ProfileResult(400, NoUpdates)
  ELSE IF /\ body.email # NoEmail
          /\ \E o \in UserIds \ {id} :
               profile[o].email = toLowerCase(body.email)
       THEN ProfileResult(400, NoUpdates)
  ELSE IF body.phone # 0 /\ ~phoneRegex(body.phone)
       THEN ProfileResult(400, NoUpdates)
  ELSE LET taken == Given(body) \cap
                      {"name", "email", "phone", "profilePicture"}
           updates ==
             [f \in taken |->
                IF f = "name" THEN Trim(body.name)
                ELSE IF f = "email" THEN toLowerCase(body.email)
                ELSE body[f]]
       IN IF taken = {} THEN ProfileResult(400, NoUpdates)
          ELSE ProfileResult(200, updates)

\* the persisted document of user id
UserDoc(id) ==
  [role |-> role[id], isAdmin |-> isAdminFlag[id], name |-> profile[id].name,
   email |-> profile[id].email, phone |-> profile[id].phone,
   profilePicture |-> profile[id].profilePicture]

\* findByIdAndUpdate(id, { $set: updates })
SetFields(doc, updates) ==
  [f \in DOMAIN doc |-> IF f \in DOMAIN updates THEN updates[f] ELSE doc[f]]

\* `addresses.$[].isDefault: false`
ClearDefaults(list) ==
  [k \in 1..Len(list) |-> [list[k] EXCEPT !.isDefault = FALSE]]

\* routes/profile POST /:_id/addresses without the updateMany that clears the
\* other defaults
addAddress_KeepDefaults(user, id, body) ==
  IF ~UserExists(id) THEN ProfileFail(404)
  ELSE IF user # id THEN ProfileFail(403)
  ELSE IF body.street = << >> THEN ProfileFail(400)
  ELSE IF body.longitude < -180 \/ body.longitude > 180 THEN ProfileFail(400)
  ELSE LET first == body.isDefault \/ Len(addresses[id]) = 0
           newAddress == [id |-> nextAddrId, street |-> Trim(body.street),
                          isDefault |-> first]
       IN AddressResult(200,
            [addresses EXCEPT ![id] = Append(@, newAddress)])

\* routes/profile POST /:_id/addresses
addAddress(user, id, body) ==
  IF ~UserExists(id) THEN ProfileFail(404)
  ELSE IF user # id THEN ProfileFail(403)
  ELSE IF body.street = << >> THEN ProfileFail(400)
  ELSE IF body.longitude < -180 \/ body.longitude > 180 THEN ProfileFail(400)
  ELSE LET first == body.isDefault \/ Len(addresses[id]) = 0
           kept == IF first THEN ClearDefaults(addresses[id])
                   ELSE addresses[id]
           newAddress == [id |-> nextAddrId, street |-> Trim(body.street),
                          isDefault |-> first]
       IN AddressResult(200,
            [addresses EXCEPT ![id] = Append(kept, newAddress)])

\* `$pull: { addresses: { _id: addressId } }`
Pulled(list, addressId) == SelectSeq(list, LAMBDA a : a.id # addressId)

\* routes/profile DELETE /:_id/addresses/:addressId without the comparison
\* of req.user._id with the path id
deleteAddress_NoOwnerCheck(user, id, addressId) ==
  IF ~UserExists(id) THEN ProfileFail(404)
  ELSE IF ~\E k \in 1..Len(addresses[id]) : addresses[id][k].id = addressId
       THEN ProfileFail(404)
  ELSE AddressResult(200,
         [addresses EXCEPT ![id] = Pulled(@, addressId)])

\* routes/profile DELETE /:_id/addresses/:addressId: the new default is set
\* on the document in memory, which is never saved; only the $pull is written
deleteAddress(user, id, addressId) ==
  IF ~UserExists(id) THEN ProfileFail(404)
  ELSE IF user # id THEN ProfileFail(403)
  ELSE IF ~\E k \in 1..Len(addresses[id]) : addresses[id][k].id = addressId
       THEN ProfileFail(404)
  ELSE AddressResult(200,
         [addresses EXCEPT ![id] = Pulled(@, addressId)])

\* A profile request through auth.
ServedProfile(op, tok, arg, c, r) ==
  IF c.status # 0
  THEN Outcome(op, tok, arg, c.status, FALSE, NoUser, NoEmit, << >>)
  ELSE Outcome(op, tok, arg, r.status, TRUE, c.user, NoEmit, << >>)

\* the bodies of PUT /api/profile/:_id the model sends; role and isAdmin are
\* fields a requester may add to the body
NoProfileChange ==
  [name |-> << >>, email |-> NoEmail, phone |-> 0, profilePicture |-> 0,
   role |-> ""]
ProfileBodies ==
  {NoProfileChange,
   [NoProfileChange EXCEPT !.name = <<" ", "a">>],
   [NoProfileChange EXCEPT !.name = <<" ", "a", "b">>, !.role = "admin"],
   [NoProfileChange EXCEPT !.email = Email(NumUsers + 1, TRUE, FALSE)],
   [NoProfileChange EXCEPT !.email = Email(NumUsers, TRUE, TRUE)],
   [NoProfileChange EXCEPT !.phone = PhoneMinLen - 1],
   [NoProfileChange EXCEPT !.email = Email(NumUsers + 1, TRUE, TRUE),
                           !.phone = PhoneMinLen, !.profilePicture = 1]}
\* the bodies of POST /api/profile/:_id/addresses the model sends
AddressBodies ==
  {[street |-> <<"s", " ">>, longitude |-> 0, isDefault |-> TRUE],
   [street |-> <<"s", " ">>, longitude |-> 0, isDefault |-> FALSE],
   [street |-> << >>, longitude |-> 0, isDefault |-> FALSE],
   [street |-> <<"s">>, longitude |-> 181, isDefault |-> TRUE]}

\* PUT /api/profile/:_id
UpdateProfile(tok, id, body) ==
  /\ LET c == Chain(tok, FALSE)
         r == updateProfile(c.user, id, body)
         doc == SetFields(UserDoc(id), r.updates)
         ok == c.status = 0 /\ r.status = 200
     IN /\ role' = IF ok THEN [role EXCEPT ![id] = doc.role] ELSE role
        /\ isAdminFlag' = IF ok THEN [isAdminFlag EXCEPT ![id] = doc.isAdmin]
                          ELSE isAdminFlag
        /\ profile' =
             IF ok
             THEN [profile EXCEPT ![id] =
                     [name |-> doc.name, email |-> doc.email,
                      phone |-> doc.phone,
                      profilePicture |-> doc.profilePicture]]
             ELSE profile
        /\ last' = ServedProfile("updateProfile", tok,
                                 [id |-> id, body |-> body], c, r)
  /\ UNCHANGED <<addresses, nextAddrId, messages, shopVars, sockVars,
                 cartVars, reqVars>>

\* POST /api/profile/:_id/addresses
AddAddress(tok, id, body) ==
  /\ nextAddrId <= MaxAddrIds
  /\ UserExists(id) => Len(addresses[id]) < MaxAddresses
  /\ LET c == Chain(tok, FALSE)
         r == addAddress(c.user, id, body)
         ok == c.status = 0 /\ r.status = 200
     IN /\ addresses' = IF ok THEN r.addrs ELSE addresses
        /\ nextAddrId' = IF ok THEN nextAddrId + 1 ELSE nextAddrId
        /\ last' = ServedProfile("addAddress", tok,
                                 [id |-> id, body |-> body], c, r)
  /\ UNCHANGED <<role, isAdminFlag, profile, messages, shopVars, sockVars,
                 cartVars, reqVars>>

\* DELETE /api/profile/:_id/addresses/:addressId
DeleteAddress(tok, id, addressId) ==
  /\ LET c == Chain(tok, FALSE)
         r == deleteAddress(c.user, id, addressId)
     IN /\ addresses' = IF c.status = 0 THEN r.addrs ELSE addresses
        /\ last' = ServedProfile("deleteAddress", tok,
                                 [id |-> id, addressId |-> addressId], c, r)
  /\ UNCHANGED <<role, isAdminFlag, nextAddrId, profile, messages, shopVars,
                 sockVars, cartVars, reqVars>>

\* ------------------------------------------- add-address requests in flight
\* POST /api/profile/:_id/addresses as the steps its awaits cut it into: the
\* user is read and the request is checked, then the updateMany that clears
\* the defaults, then the $push.
IdleAdd ==
  [pc |-> "idle", id |-> NoUser, street |-> << >>, isDefault |-> FALSE,
   first |-> FALSE, status |-> 0]

\* the request arrives: User.findById, the owner check and the validation
AddBegin(r, tok, id, body) ==
  /\ addrReqs[r].pc = "idle"
  /\ LET c == Chain(tok, FALSE)
         status == IF c.status # 0 THEN c.status
                   ELSE IF ~UserExists(id) THEN 404
                   ELSE IF c.user # id THEN 403
                   ELSE IF body.street = << >> THEN 400
                   ELSE IF body.longitude < -180 \/ body.longitude > 180
                        THEN 400
                   ELSE 0
         first == body.isDefault \/ Len(addresses[id]) = 0
     IN /\ addrReqs' =
             [addrReqs EXCEPT ![r] =
                IF status # 0 THEN [IdleAdd EXCEPT !.pc = "done",
                                                   !.status = status]
                ELSE [pc |-> IF first THEN "reset" ELSE "push", id |-> id,
                      street |-> Trim(body.street),
                      isDefault |-> body.isDefault, first |-> first,
                      status |-> 0]]
        /\ last' = StepOutcome("addBegin", r, status)
  /\ UNCHANGED <<userVars, shopVars, cartVars, orderReqs,
                 chatReqs, sockVars, messages>>

\* User.updateMany({ _id }, { $set: { 'addresses.$[].isDefault': false } })
AddReset(r) ==
  /\ addrReqs[r].pc = "reset"
  /\ addresses' = [addresses EXCEPT ![addrReqs[r].id] = ClearDefaults(@)]
  /\ addrReqs' = [addrReqs EXCEPT ![r].pc = "push"]
  /\ last' = StepOutcome("addReset", r, 0)
  /\ UNCHANGED <<role, isAdminFlag, nextAddrId, profile, shopVars, cartVars,
                 orderReqs, chatReqs, sockVars, messages>>

\* User.findByIdAndUpdate(_id, { $push: { addresses: newAddress } }) and the
\* answer
AddPush(r) ==
  /\ addrReqs[r].pc = "push"
  /\ LET q == addrReqs[r]
     IN addresses' =
          [addresses EXCEPT ![q.id] =
             Append(@, [id |-> nextAddrId, street |-> q.street,
                        isDefault |-> q.first])]
  /\ nextAddrId' = nextAddrId + 1
  /\ addrReqs' = [addrReqs EXCEPT ![r].pc = "done", ![r].status = 200]
  /\ last' = StepOutcome("addPush", r, 200)
  /\ UNCHANGED <<role, isAdminFlag, profile, shopVars, cartVars, orderReqs,
                 chatReqs, sockVars, messages>>

\* ------------------------------------------ mark-as-read requests in flight
\* PUT /api/messages/:messageId/read as the steps its await cuts it into:
\* Message.findById and the checks on the document it returned, then
\* message.save() followed by the emit and the answer.
IdleRead ==
  [pc |-> "idle", user |-> NoUser, id |-> 0, status |-> 0, emitted |-> FALSE]

\* the request arrives: auth, Message.findById, the receiver check and the
\* test of isRead on the document just read
ReadBegin(r, tok, messageId) ==
  /\ readReqs[r].pc = "idle"
  /\ LET c == Chain(tok, FALSE)
         m == markRead(c.user, messageId)
         status == IF c.status # 0 THEN c.status
                   ELSE IF m.event = "none" THEN m.status ELSE 0
     IN /\ readReqs' =
             [readReqs EXCEPT ![r] =
                [pc |-> IF status # 0 THEN "done" ELSE "save",
                 user |-> c.user, id |-> messageId, status |-> status,
                 emitted |-> FALSE]]
        /\ last' = Outcome("readBegin", tok, [slot |-> r, id |-> messageId],
                           status, c.status = 0, c.user, NoEmit, << >>)
  /\ UNCHANGED <<userVars, shopVars, cartVars, orderReqs, addrReqs, sendReqs,
                 authReqs, sockVars, messages>>

\* message.isRead = true; message.save(); emitToUser(message.senderId,
\* 'message_read'); the answer
ReadSave(r, saveOk) ==
  /\ readReqs[r].pc = "save"
  /\ LET q == readReqs[r]
         em == IF saveOk
               THEN Emit("message_read", Room(messages[q.id].senderId))
               ELSE NoEmit
         status == IF saveOk THEN 200 ELSE 500
     IN /\ messages' = IF saveOk THEN [messages EXCEPT ![q.id].isRead = TRUE]
                       ELSE messages
        /\ readReqs' = [readReqs EXCEPT ![r].pc = "done",
                                        ![r].status = status,
                                        ![r].emitted = em.event # "none"]
        /\ last' = Outcome("readSave", [kind |-> "none", id |-> NoUser],
                           [slot |-> r, id |-> q.id], status, TRUE, q.user,
                           em, IF saveOk THEN <<q.id>> ELSE << >>)
  /\ UNCHANGED <<userVars, shopVars, cartVars, orderReqs, addrReqs, sendReqs,
                 authReqs, sockVars>>

\* -------------------------------------------------- send requests in flight
\* The three send handlers as the steps their awaits cut them into: the
\* validation of the body with the lookup of the receiver, then
\* message.save(), then the populate calls followed by the emit and the 201.
SendOps == {"sendMessageToAdmin", "sendMessageToUser", "sendBroadcastMessage"}
IdleSend ==
  [pc |-> "idle", op |-> "none", user |-> NoUser,
   doc |-> NewMessage(NoUser, NoUser, << >>, "none"), event |-> "none",
   room |-> NoRoom, msgId |-> 0, emitted |-> FALSE, status |-> 0]

\* what the handler of `op` does for req.user when the store accepts the write
sendHandler(op, user, userId, body) ==
  IF op = "sendMessageToAdmin" THEN sendMessageToAdmin(user, body, TRUE)
  ELSE IF op = "sendMessageToUser"
       THEN sendMessageToUser(user, userId, body, TRUE)
       ELSE sendBroadcastMessage(user, body, TRUE)

\* the request arrives: the middleware chain, the validation of the body and
\* the lookup of the receiver; `new Message(...)` is built in memory
SendBegin(r, op, tok, userId, body) ==
  /\ sendReqs[r].pc = "idle"
  /\ LET c == Chain(tok, op # "sendMessageToAdmin")
         h == sendHandler(op, c.user, userId, body)
         status == IF c.status # 0 THEN c.status
                   ELSE IF h.status # 201 THEN h.status ELSE 0
     IN /\ sendReqs' =
             [sendReqs EXCEPT ![r] =
                IF status # 0
                THEN [IdleSend EXCEPT !.pc = "done", !.op = op,
                                      !.user = c.user, !.status = status]
                ELSE [pc |-> "save", op |-> op, user |-> c.user,
                      doc |-> h.msgs[Len(h.msgs)], event |-> h.event,
                      room |-> h.room, msgId |-> 0, emitted |-> FALSE,
                      status |-> 0]]
        /\ last' = Outcome("sendBegin", tok,
                           [slot |-> r, op |-> op, userId |-> userId,
                            body |-> body],
                           status, c.status = 0, c.user, NoEmit, << >>)
  /\ UNCHANGED <<userVars, shopVars, cartVars, orderReqs, addrReqs, readReqs,
                 authReqs, sockVars, messages>>

\* a handler that goes on to the emit although the save was rejected
sendSave_IgnoresFailure(q, msgs, saveOk) ==
  [req |-> [q EXCEPT !.pc = "populate",
                     !.msgId = IF saveOk THEN Len(msgs) + 1 ELSE 0],
   msgs |-> IF saveOk THEN Append(msgs, q.doc) ELSE msgs]

\* await message.save(): the document is stored, or the save throws and the
\* catch answers 500
sendSave(q, msgs, saveOk) ==
  IF saveOk
  THEN [req |-> [q EXCEPT !.pc = "populate", !.msgId = Len(msgs) + 1],
        msgs |-> Append(msgs, q.doc)]
  ELSE [req |-> [q EXCEPT !.pc = "done", !.status = 500], msgs |-> msgs]

SendSave(r, saveOk) ==
  /\ sendReqs[r].pc = "save"
  /\ Len(messages) < MaxMsgs
  /\ LET w == sendSave(sendReqs[r], messages, saveOk)
     IN /\ messages' = w.msgs
        /\ sendReqs' = [sendReqs EXCEPT ![r] = w.req]
        /\ last' = Outcome("sendSave", [kind |-> "none", id |-> NoUser],
                           [slot |-> r, op |-> w.req.op], w.req.status, TRUE,
                           w.req.user, NoEmit, << >>)
  /\ UNCHANGED <<userVars, shopVars, cartVars, orderReqs, addrReqs, readReqs,
                 authReqs, sockVars>>

\* the populate calls return, the event is emitted and the 201 is sent; a
\* populate that throws is answered 500 by the catch
SendFinish(r, populateOk) ==
  /\ sendReqs[r].pc = "populate"
  /\ LET q == sendReqs[r]
         em == IF populateOk THEN Emit(q.event, q.room) ELSE NoEmit
         status == IF populateOk THEN 201 ELSE 500
     IN /\ sendReqs' = [sendReqs EXCEPT ![r].pc = "done",
                                        ![r].status = status,
                                        ![r].emitted = em.event # "none"]
        /\ last' = Outcome("sendFinish", [kind |-> "none", id |-> NoUser],
                           [slot |-> r, op |-> q.op], status, TRUE, q.user,
                           em, IF populateOk THEN <<q.msgId>> ELSE << >>)
  /\ UNCHANGED <<userVars, shopVars, cartVars, orderReqs, addrReqs, readReqs,
                 authReqs, sockVars, messages>>

\* ------------------------------------------- 'authenticate' events in flight
\* socket.on('authenticate') as the steps its await cuts it into: the part
\* that runs when the event arrives, up to `await User.findById`, and the
\* part that runs when the lookup returns.
IdleAuth ==
  [pc |-> "idle", sock |-> 0, data |-> [kind |-> "nodata", id |-> NoUser],
   answers |-> << >>]

\* `data.token` of a missing payload throws, `!token`, jwt.verify throws:
\* the event is answered at once with authentication_error
authRejectedAtOnce(data) ==
  data.kind \in {"nodata", "none"} \/ ~jwtVerify(data)

AuthReceive(r, s, data) ==
  /\ authReqs[r].pc = "idle"
  /\ s \in connected
  /\ LET rejected == authRejectedAtOnce(data)
     IN /\ authReqs' =
             [authReqs EXCEPT ![r] =
                [pc |-> IF rejected THEN "done" ELSE "lookup", sock |-> s,
                 data |-> data,
                 answers |-> IF rejected THEN <<"authentication_error">>
                             ELSE << >>]]
        /\ last' = Outcome("authReceive", data, [slot |-> r, sock |-> s], 0,
                           TRUE, NoUser,
                           IF rejected
                           THEN [event |-> "authentication_error",
                                 room |-> NoRoom, delivered |-> {s}]
                           ELSE NoEmit,
                           << >>)
  /\ UNCHANGED <<userVars, shopVars, cartVars, orderReqs, addrReqs, readReqs,
                 sendReqs, sockVars, messages>>

\* the answers of a handler that reports success and then falls into the
\* error branch as well
authAnswers_Both(u) ==
  IF u = NoUser THEN <<"authentication_error">>
  ELSE <<"authenticated", "authentication_error">>

\* what the handler emits to the socket once the lookup has returned user u
authAnswers(u) ==
  IF u = NoUser THEN <<"authentication_error">> ELSE <<"authenticated">>

\* User.findById returns (or throws, findOk = FALSE): the identity is
\* attached, the rooms are joined and 'authenticated' is emitted, or
\* authentication_error is.  A socket that has gone meanwhile is written
\* to all the same; the emit then reaches nobody.
AuthFinish(r, findOk) ==
  /\ authReqs[r].pc = "lookup"
  /\ LET q == authReqs[r]
         s == q.sock
         u == IF findOk THEN socketAuth(q.data) ELSE NoUser
         answers == authAnswers(u)
     IN /\ sockUser' = IF u = NoUser THEN sockUser
                       ELSE [sockUser EXCEPT ![s] = u]
        /\ rooms' = IF u = NoUser THEN rooms
                    ELSE [rooms EXCEPT ![s] = @ \cup JoinedRooms(u)]
        /\ handshakes' = IF u = NoUser THEN handshakes
                         ELSE [handshakes EXCEPT ![s] = @ \cup {u}]
        /\ authReqs' = [authReqs EXCEPT ![r].pc = "done",
                                        ![r].answers = answers]
        /\ last' = Outcome("authFinish", q.data, [slot |-> r, sock |-> s], 0,
                           TRUE, u,
                           [event |-> answers[Len(answers)], room |-> NoRoom,
                            delivered |-> {s} \cap connected],
                           << >>)
  /\ UNCHANGED <<userVars, shopVars, cartVars, orderReqs, addrReqs, readReqs,
                 sendReqs, ioSet, connected, messages>>

\* -------------------------------------------------------------- initially
\* The accounts exist (each was written by save(), whatever isAdmin value
\* the document carried), the admins first: renaming accounts loses nothing.
\* There are no messages, products, orders or connections yet.
Init ==
  /\ \E k \in 0..MaxAdmins :
       role = [u \in UserIds |-> IF u <= k THEN "admin" ELSE "user"]
  /\ \E raw \in [UserIds -> BOOLEAN] :
       isAdminFlag =
         [u \in UserIds |->
            preSaveUser([role |-> role[u], isAdmin |-> raw[u]]).isAdmin]
  /\ addresses = [u \in UserIds |-> << >>]
  /\ nextAddrId = 1
  /\ profile = [u \in UserIds |-> InitialProfile(u)]
  /\ messages = << >>
  /\ products = << >>
  /\ orders = << >>
  /\ cartItems = {}
  /\ cart = NoCart
  /\ orderReqs = [r \in Slots |-> IdleOrder]
  /\ addrReqs = [r \in Slots |-> IdleAdd]
  /\ readReqs = [r \in Slots |-> IdleRead]
  /\ sendReqs = [r \in Slots |-> IdleSend]
  /\ authReqs = [r \in Slots |-> IdleAuth]
  /\ ioSet = FALSE
  /\ connected = {}
  /\ rooms = [s \in SocketIds \cup PeerIds |-> {}]
  /\ sockUser = [s \in SocketIds \cup PeerIds |-> NoUser]
  /\ handshakes = [s \in SocketIds \cup PeerIds |-> {}]
  /\ last = Outcome("init", [kind |-> "none", id |-> NoUser], 0, 0, FALSE,
                    NoUser, NoEmit, << >>)

\* ------------------------------------------------------- specifications
\* The message routes.
MsgNext ==
  \/ \E tok \in Tokens, body \in Bodies, saveOk \in BOOLEAN :
       SendMessageToAdmin(tok, body, saveOk)
  \/ \E tok \in Tokens, userId \in UserIds \cup {UnknownId}, body \in Bodies,
        saveOk \in BOOLEAN :
       SendMessageToUser(tok, userId, body, saveOk)
  \/ \E tok \in Tokens, body \in Bodies, saveOk \in BOOLEAN :
       SendBroadcastMessage(tok, body, saveOk)
  \/ \E tok \in Tokens, messageId \in MessageIds :
       MarkMessageAsRead(tok, messageId)
  \/ \E tok \in Tokens, messageId \in MessageIds :
       MarkMessageAsReadAdmin(tok, messageId)
  \/ \E tok \in Tokens, q \in IssuedQueries \cap PageQueries :
       GetMyChatHistory(tok, q)
  \/ \E tok \in Tokens, q \in IssuedQueries :
       GetAllMyMessages(tok, q)

SpecMsg == Init /\ [][MsgNext]_vars

\* The real-time channel and the routes that emit to it.  The requests
\* carry a well-formed body and the store accepts the write: a rejected
\* request emits nothing, whatever the sockets are.
SockBody == <<" ", "h">>
SockNext ==
  \/ \E s \in SocketIds : Connect(s)
  \/ \E s \in SocketIds : Disconnect(s)
  \/ \E s \in SocketIds, data \in AuthPayloads : Authenticate(s, data)
  \/ \E tok \in Tokens :
       Len(messages) < MaxSockMsgs /\ SendMessageToAdmin(tok, SockBody, TRUE)
  \/ \E tok \in Tokens, userId \in UserIds \cup {UnknownId} :
       Len(messages) < MaxSockMsgs
         /\ SendMessageToUser(tok, userId, SockBody, TRUE)
  \/ \E tok \in Tokens :
       Len(messages) < MaxSockMsgs
         /\ SendBroadcastMessage(tok, SockBody, TRUE)
  \/ \E tok \in Tokens, messageId \in MessageIds :
       MarkMessageAsRead(tok, messageId)
  \/ \E tok \in Tokens, messageId \in MessageIds :
       MarkMessageAsReadAdmin(tok, messageId)

SpecSock == Init /\ [][SockNext]_vars

\* The message history: the requests come from signed-in users with a
\* well-formed body, so that the store fills, and are read back.
HistTokens == {t \in Tokens : t.kind = "signed" /\ t.id \in UserIds}
HistNext ==
  \/ \E tok \in HistTokens : SendMessageToAdmin(tok, SockBody, TRUE)
  \/ \E tok \in HistTokens, userId \in UserIds :
       SendMessageToUser(tok, userId, SockBody, TRUE)
  \/ \E tok \in HistTokens : SendBroadcastMessage(tok, SockBody, TRUE)
  \/ \E tok \in HistTokens, messageId \in MessageIds :
       MarkMessageAsRead(tok, messageId)
  \/ \E tok \in HistTokens, q \in IssuedQueries \cap PageQueries :
       GetMyChatHistory(tok, q)
  \/ \E tok \in HistTokens, q \in IssuedQueries :
       GetAllMyMessages(tok, q)

SpecHist == Init /\ [][HistNext]_vars

\* The admin-only routes: requests that pass auth, from admins and from
\* others, with the channel attached so that an accepted send emits.
AdminRouteBodies ==
  {[stock |-> MaxStock - 1, minOrderQuantity |-> 1, maxOrderQuantity |-> 2]}
AdminNext ==
  \/ \E s \in SocketIds : Connect(s)
  \/ \E tok \in HistTokens :
       Len(messages) < MaxSockMsgs /\ SendMessageToAdmin(tok, SockBody, TRUE)
  \/ \E tok \in HistTokens, userId \in UserIds :
       Len(messages) < MaxSockMsgs
         /\ SendMessageToUser(tok, userId, SockBody, TRUE)
  \/ \E tok \in HistTokens :
       Len(messages) < MaxSockMsgs
         /\ SendBroadcastMessage(tok, SockBody, TRUE)
  \/ \E tok \in HistTokens, messageId \in MessageIds :
       MarkMessageAsReadAdmin(tok, messageId)
  \/ \E tok \in HistTokens, q \in IssuedAdminQueries :
       GetAdminConversations(tok, q)
  \/ \E tok \in HistTokens, q \in IssuedQueries : GetAllMessages(tok, q)
  \/ \E tok \in HistTokens, userId \in UserIds \cup {UnknownId},
        q \in IssuedQueries \cap PageQueries :
       GetSpecificUserChatHistory(tok, userId, q)
  \/ \E tok \in HistTokens, body \in AdminRouteBodies :
       CreateProduct(tok, body)
  \/ \E tok \in HistTokens, id \in ProductIds :
       UpdateProduct(tok, id, [stock |-> MaxStock])
  \/ \E tok \in HistTokens, id \in ProductIds, type \in {"added", "sold"} :
       PatchStock(tok, id, 1, type)
  \/ \E tok \in HistTokens, id \in ProductIds : DeleteProduct(tok, id)

SpecAdmin == Init /\ [][AdminNext]_vars

\* The catalogue and the orders.
ShopTokens == {t \in Tokens : t.kind = "signed" /\ t.id \in {1, NumUsers}}
StockTypes == HistoryTypes \cup {"lost"}
ShopNext ==
  \/ \E tok \in ShopTokens, body \in ProductBodies : CreateProduct(tok, body)
  \/ \E tok \in ShopTokens, id \in ProductIds, body \in PatchBodies :
       UpdateProduct(tok, id, body)
  \/ \E tok \in ShopTokens, id \in ProductIds, quantity \in Quantities,
        type \in StockTypes :
       PatchStock(tok, id, quantity, type)
  \/ \E tok \in ShopTokens, id \in ProductIds : DeleteProduct(tok, id)
  \/ \E req \in OrderRequests, saveOk \in BOOLEAN : CreateOrder(req, saveOk)

SpecShop == Init /\ [][ShopNext]_vars

\* The profile and address routes.
ProfileTokens == {t \in Tokens : t.kind = "signed" /\ t.id \in {1, NumUsers}}
ProfileTargets == {1, UnknownId}
ProfileNext ==
  \/ \E tok \in ProfileTokens, id \in ProfileTargets, body \in ProfileBodies :
       UpdateProfile(tok, id, body)
  \/ \E tok \in ProfileTokens, id \in ProfileTargets, body \in AddressBodies :
       AddAddress(tok, id, body)
  \/ \E tok \in ProfileTokens, id \in ProfileTargets,
        addressId \in 1..MaxAddrIds :
       DeleteAddress(tok, id, addressId)

SpecProfile == Init /\ [][ProfileNext]_vars

\* The cart: a catalogue that admins fill and the two implementations of
\* POST /api/cart/items.
CartNext ==
  \/ \E tok \in ShopTokens, body \in AdminRouteBodies :
       CreateProduct(tok, body)
  \/ \E tok \in ShopTokens, id \in ProductIds : DeleteProduct(tok, id)
  \/ \E tok \in ShopTokens, productId \in CartProductIds,
        quantity \in CartQuantities :
       AddToCart(tok, productId, quantity)
  \/ \E productId \in CartProductIds, quantity \in CartQuantities :
       PostCartItems(productId, quantity)

SpecCart == Init /\ [][CartNext]_vars

\* Orders in flight together: admins fill and restock the catalogue while
\* the requests of the slots take their steps in any order.
OrderRaceNext ==
  \/ \E tok \in ShopTokens, body \in AdminRouteBodies :
       CreateProduct(tok, body)
  \/ \E tok \in ShopTokens, id \in ProductIds :
       UpdateProduct(tok, id, [stock |-> MaxStock])
  \/ \E r \in Slots, req \in RaceRequests : OrderBegin(r, req)
  \/ \E r \in Slots : OrderCheck(r)
  \/ \E r \in Slots : OrderDecrement(r)
  \/ \E r \in Slots, saveOk \in BOOLEAN : OrderSave(r, saveOk)

SpecOrderRace == Init /\ [][OrderRaceNext]_vars

\* Add-address requests in flight together.
AddressRaceNext ==
  \/ \E r \in Slots, tok \in ProfileTokens, id \in ProfileTargets,
        body \in AddressBodies :
       AddBegin(r, tok, id, body)
  \/ \E r \in Slots : AddReset(r)
  \/ \E r \in Slots : AddPush(r)
  \/ \E tok \in ProfileTokens, id \in ProfileTargets,
        addressId \in 1..MaxAddrIds :
       DeleteAddress(tok, id, addressId)

SpecAddressRace == Init /\ [][AddressRaceNext]_vars

\* Mark-as-read requests of receivers in flight together, with the channel
\* attached so that a save emits its receipt.
ReadRaceNext ==
  \/ \E s \in SocketIds : Connect(s)
  \/ \E tok \in HistTokens :
       Len(messages) < MaxSockMsgs /\ SendMessageToAdmin(tok, SockBody, TRUE)
  \/ \E tok \in HistTokens, userId \in UserIds :
       Len(messages) < MaxSockMsgs
         /\ SendMessageToUser(tok, userId, SockBody, TRUE)
  \/ \E r \in Slots, tok \in HistTokens, messageId \in 1..(MaxSockMsgs + 1) :
       ReadBegin(r, tok, messageId)
  \/ \E r \in Slots, saveOk \in BOOLEAN : ReadSave(r, saveOk)

SpecReadRace == Init /\ [][ReadRaceNext]_vars

\* The send handlers step by step, with the channel attached.
SendStepsNext ==
  \/ \E s \in SocketIds : Connect(s)
  \/ \E r \in Slots, op \in SendOps, tok \in ShopTokens,
        userId \in {NumUsers, UnknownId}, body \in Bodies :
       SendBegin(r, op, tok, userId, body)
  \/ \E r \in Slots, saveOk \in BOOLEAN : SendSave(r, saveOk)
  \/ \E r \in Slots, populateOk \in BOOLEAN : SendFinish(r, populateOk)

SpecSendSteps == Init /\ [][SendStepsNext]_vars

\* The handshake step by step.  A pending lookup returns or throws in the
\* end, so the step that resumes the handler is taken (weak fairness); a
\* socket id is taken again only once no handler of its former holder is
\* pending.
AuthLiveNext ==
  \/ \E s \in SocketIds :
       /\ \A r \in Slots :
            ~(authReqs[r].pc = "lookup" /\ authReqs[r].sock = s)
       /\ Connect(s)
  \/ \E s \in SocketIds : Disconnect(s)
  \/ \E r \in Slots, s \in SocketIds, data \in AuthPayloads :
       AuthReceive(r, s, data)
  \/ \E r \in Slots, findOk \in BOOLEAN : AuthFinish(r, findOk)

SpecAuthLive ==
  /\ Init
  /\ [][AuthLiveNext]_vars
  /\ \A r \in Slots : WF_vars(\E findOk \in BOOLEAN : AuthFinish(r, findOk))

\* The typing indicators between two sockets, each of which may or may not
\* have authenticated.
PeerTokens == {t \in Tokens : t.kind = "signed" /\ t.id \in {1, 2}}
TypingNext ==
  \/ \E s \in PeerIds : Connect(s)
  \/ \E s \in PeerIds : Disconnect(s)
  \/ \E s \in PeerIds, data \in PeerTokens : Authenticate(s, data)
  \/ \E s \in PeerIds, data \in TypingPayloads, event \in TypingEvents :
       Typing(s, data, event)

SpecTyping == Init /\ [][TypingNext]_vars

\* The catalogue alone: products are created, patched, restocked and
\* reviewed.
CatalogueNext ==
  \/ \E tok \in ShopTokens, body \in ProductBodies : CreateProduct(tok, body)
  \/ \E tok \in ShopTokens, id \in ProductIds, body \in PatchBodies :
       UpdateProduct(tok, id, body)
  \/ \E tok \in ShopTokens, id \in ProductIds, type \in {"added", "sold"} :
       PatchStock(tok, id, 1, type)
  \/ \E tok \in ShopTokens, id \in 1..(NumProducts + 1), rating \in Ratings :
       AddReview(tok, id, rating)

SpecCatalogue == Init /\ [][CatalogueNext]_vars

\* ------------------------------------------------------------- properties
\* a token that verifies and names an existing user
TokenNamesUser(tok) == tok.kind = "signed" /\ tok.id \in UserIds

MessageRouteOps ==
  {"sendMessageToAdmin", "sendMessageToUser", "sendBroadcastMessage",
   "markMessageAsRead", "markMessageAsReadAdmin", "getMyChatHistory",
   "getAllMyMessages"}
MarkReadOps == {"markMessageAsRead", "markMessageAsReadAdmin"}
UserRoomEvents ==
  {"new_message_to_admin", "new_message_from_admin", "message_read"}

\* C1: a socket is in personal room u only after a handshake with a valid
\* token of the existing user u, in 'admins' only after a handshake of an
\* admin, and in no room without a successful handshake; an event emitted
\* to the room of user u reaches only sockets that authenticated as u.
C1_RoomsNeedHandshake ==
  /\ \A s \in SocketIds :
       /\ \A u \in UserIds : Room(u) \in rooms[s] => u \in handshakes[s]
       /\ AdminsRoom \in rooms[s] =>
            \E u \in handshakes[s] : role[u] = "admin"
       /\ handshakes[s] = {} => rooms[s] = {}
       /\ rooms[s] \subseteq {Room(u) : u \in UserIds} \cup {AdminsRoom}
  /\ last.event \in UserRoomEvents =>
       \E u \in UserIds :
         /\ last.room = Room(u)
         /\ \A s \in last.delivered : u \in handshakes[s]

\* a read receipt reached a socket that authenticated as the sender
C1_Witness ==
  /\ last.event = "message_read"
  /\ last.delivered # {}
  /\ \E s \in last.delivered : last.reqUser \notin handshakes[s]

\* C2: a request to a protected route without a token, with a token that
\* does not verify or with a token of an unknown user is answered 401, its
\* handler does not run and nothing persisted changes; a handler that runs
\* has the token's existing user as req.user.
C2_AuthGate ==
  [][last'.op \in MessageRouteOps =>
       /\ ~TokenNamesUser(last'.tok) =>
            /\ last'.status = 401
            /\ ~last'.ran
            /\ db' = db
       /\ last'.ran =>
            /\ TokenNamesUser(last'.tok)
            /\ last'.reqUser = last'.tok.id]_vars

\* a forged token was turned away while messages were stored
C2_Witness ==
  /\ last.op = "sendBroadcastMessage"
  /\ last.tok.kind = "forged"
  /\ last.status = 401
  /\ Len(messages) > 0

AdminRouteOps ==
  {"sendMessageToUser", "sendBroadcastMessage", "getAdminConversations",
   "getAllMessages", "getSpecificUserChatHistory", "markMessageAsReadAdmin",
   "createProduct", "updateProduct", "patchStock", "deleteProduct"}

\* C3: on every admin-only message and product route a requester who passes
\* auth but whose role is not admin is answered 403, the handler does not
\* run, nothing persisted changes and no event is emitted; a handler of such
\* a route runs only for an admin; every stored broadcast has a sender whose
\* role is admin.
C3_AdminOnly ==
  /\ [][last'.op \in AdminRouteOps =>
          /\ (TokenNamesUser(last'.tok) /\ role[last'.tok.id] # "admin") =>
               /\ last'.status = 403
               /\ ~last'.ran
               /\ db' = db
               /\ last'.event = "none"
          /\ last'.ran => role[last'.reqUser] = "admin"]_vars
  /\ [](\A i \in 1..Len(messages) :
          messages[i].messageType = "broadcast" =>
            role[messages[i].senderId] = "admin")

\* the receiver of an unread message, who is not an admin, was refused the
\* admin mark-as-read while the channel was attached
C3_Witness ==
  /\ last.op = "markMessageAsReadAdmin"
  /\ TokenNamesUser(last.tok)
  /\ role[last.tok.id] # "admin"
  /\ last.status = 403
  /\ ioSet
  /\ last.arg \in 1..Len(messages)
  /\ messages[last.arg].receiverId = last.tok.id
  /\ ~messages[last.arg].isRead

\* C4: mark-as-read by a requester who is not the receiver of an existing
\* message (a broadcast has no receiver) is answered 403, leaves the
\* messages as they are and emits nothing; an unknown id is answered 404.
C4_MarkReadOnlyByReceiver ==
  [][(last'.op \in MarkReadOps /\ last'.ran) =>
       /\ last'.arg \notin 1..Len(messages) => last'.status = 404
       /\ (/\ last'.arg \in 1..Len(messages)
           /\ messages[last'.arg].receiverId # last'.reqUser) =>
            /\ last'.status = 403
            /\ messages' = messages
            /\ last'.event = "none"]_vars

\* the documents of S that user may see
Visible(S, user) == {i \in S : Involves(i, user)}
BodyDocs(body) == {body.messages[k].doc : k \in 1..Len(body.messages)}
OnlyOf(body, user) ==
  \A d \in BodyDocs(body) : d.senderId = user \/ d.receiverId = user

\* C5: whatever the filters and the pagination, my-chats and my-messages
\* return only messages sent or received by the requester, and the answer
\* is the one the requester would get if the messages between other users
\* did not exist.
C5_OwnMessagesOnly ==
  /\ \A u \in UserIds, q \in HistoryQueries :
       LET all == getAllMyMessagesIn(StoredIds, u, q)
       IN /\ all = getAllMyMessagesIn(Visible(StoredIds, u), u, q)
          /\ all.status = 200 => OnlyOf(all.body, u)
  /\ \A u \in UserIds, q \in PageQueries :
       LET all == getMyChatHistoryIn(StoredIds, u, q)
       IN /\ all = getMyChatHistoryIn(Visible(StoredIds, u), u, q)
          /\ all.status = 200 => OnlyOf(all.body, u)
  /\ (last.op \in {"getMyChatHistory", "getAllMyMessages"}
        /\ last.status = 200) =>
       OnlyOf(last.body, last.reqUser)

\* a user read their history while a private message between two other
\* users was stored
C5_Witness ==
  /\ last.op = "getAllMyMessages"
  /\ last.status = 200
  /\ Len(last.body.messages) > 0
  /\ \E i \in StoredIds :
       /\ messages[i].messageType = "private"
       /\ ~Involves(i, last.reqUser)

\* C6: the stock of every product is non-negative in every reachable state.
C6_StockNonNegative ==
  \A p \in 1..Len(products) : products[p].exists => products[p].stock >= 0

\* C7: every user has at most one address with isDefault = true.
Defaults(u) == {k \in 1..Len(addresses[u]) : addresses[u][k].isDefault}
C7_AtMostOneDefault == \A u \in UserIds : Cardinality(Defaults(u)) <= 1

\* a default address was added to a user who already had a default one
C7_Witness ==
  /\ last.op = "addAddress"
  /\ last.status = 200
  /\ last.arg.body.isDefault
  /\ Len(addresses[last.arg.id]) = 2
  /\ Cardinality(Defaults(last.arg.id)) = 1

\* C8: every line item of an order that is persisted has a quantity within
\* the order bounds its product has when the order is placed.
C8_OrderedWithinBounds ==
  [][(last'.op = "createOrder" /\ last'.status = 201) =>
       \A k \in 1..Len(last'.arg.items) :
         LET item == last'.arg.items[k]
         IN /\ products[item.product].minOrderQuantity <= item.quantity
            /\ item.quantity <= products[item.product].maxOrderQuantity]_vars

\* C9: the persisted isAdmin of every user is true exactly when the role is
\* admin, and the save hook yields that flag from any document.
C9_AdminFlagFollowsRole ==
  /\ \A u \in UserIds : isAdminFlag[u] <=> (role[u] = "admin")
  /\ \A r \in {"user", "admin"}, f \in BOOLEAN :
       preSaveUser([role |-> r, isAdmin |-> f]).isAdmin <=> (r = "admin")

\* a profile update whose body names the role admin was accepted for a user
\* who is not an admin
C9_Witness ==
  /\ last.op = "updateProfile"
  /\ last.status = 200
  /\ last.arg.body.role = "admin"
  /\ role[last.arg.id] = "user"
  /\ ~isAdminFlag[last.arg.id]

\* C10: a stored message is a broadcast exactly when it has no receiver,
\* and the receiver of a private message is an existing user.
C10_BroadcastIffNoReceiver ==
  \A i \in StoredIds :
    /\ messages[i].messageType = "broadcast"
         <=> messages[i].receiverId = NoUser
    /\ messages[i].messageType = "private" =>
         UserExists(messages[i].receiverId)

\* a broadcast and a private message are stored
C10_Witness ==
  /\ \E i \in StoredIds : messages[i].messageType = "broadcast"
  /\ \E i \in StoredIds : messages[i].messageType = "private"


C12_AdminsRoomDelivery ==
  (last.op = "sendMessageToAdmin" /\ last.status = 201) =>
    {s \in connected : AdminsRoom \in rooms[s]} \subseteq last.delivered

\* the quantity a list of line items orders of product p
RECURSIVE Ordered(_, _)
Ordered(items, p) ==
  IF items = << >> THEN 0
  ELSE (IF Head(items).product = p THEN Head(items).quantity ELSE 0)
         + Ordered(Tail(items), p)

\* an order request that passes the address, payment, product and stock checks
PassesChecks(arg) ==
  /\ arg.addressOk
  /\ arg.paymentOk
  /\ \A k \in 1..Len(arg.items) :
       /\ ProductExists(arg.items[k].product)
       /\ products[arg.items[k].product].stock >= arg.items[k].quantity

\* C13: when an order passes the checks and its save fails, the request is
\* answered with an error, no order is added, and every product keeps the
\* stock the decrements left.
C13_NoRollback ==
  [][(/\ last'.op = "createOrder"
      /\ PassesChecks(last'.arg)
      /\ (~last'.arg.saveOk \/ \E k \in 1..Len(last'.arg.items) :
                                 last'.arg.items[k].quantity < 1)) =>
       /\ last'.status = 400
       /\ orders' = orders
       /\ Len(products') = Len(products)
       /\ \A p \in 1..Len(products) :
            products'[p].stock =
              products[p].stock - Ordered(last'.arg.items, p)]_vars

\* the store refused a well-formed order for a product, and the product has
\* less stock than the stock update before it left
C13_Witness ==
  /\ last.op = "createOrder"
  /\ last.status = 400
  /\ ~last.arg.saveOk
  /\ last.arg.addressOk /\ last.arg.paymentOk
  /\ last.arg.items = <<[product |-> 1, quantity |-> 1]>>
  /\ ProductExists(1)
  /\ orders = << >>
  /\ products[1].quantityHistory = <<[type |-> "added", quantity |-> 1]>>
  /\ products[1].stock = 1

\* the bodies the input validation of the profile routes turns away
InvalidAddress(body) ==
  body.street = << >> \/ body.longitude < -180 \/ body.longitude > 180
InvalidProfile(body) ==
  \/ body.name # << >> /\ Len(Trim(body.name)) < 2
  \/ body.email # NoEmail /\ ~body.email.wellFormed
  \/ body.phone # 0 /\ body.phone < PhoneMinLen
  \/ Given(body) \cap {"name", "email", "phone", "profilePicture"} = {}

\* C14: a profile or address request that fails more than one check is
\* answered with the status of the earliest failing check in the order
\* validation (400), lookup (404), authorization (403), and nothing
\* persisted changes unless every check has passed.
C14_ChecksInOrder ==
  [][(last'.op \in {"updateProfile", "addAddress"} /\ last'.ran) =>
       LET invalid == IF last'.op = "addAddress"
                      THEN InvalidAddress(last'.arg.body)
                      ELSE InvalidProfile(last'.arg.body)
           missing == ~UserExists(last'.arg.id)
           forbidden == last'.reqUser # last'.arg.id
       IN /\ invalid => last'.status = 400
          /\ (~invalid /\ missing) => last'.status = 404
          /\ (~invalid /\ ~missing /\ forbidden) => last'.status = 403
          /\ last'.status # 200 => db' = db]_vars

\* C15: whatever page and limit a request to my-chats or my-messages
\* carries, the page and the limit the handler works with are at least 1,
\* the skip offset is not negative, and the answer reports
\* pages = ceil(total / limit).
C15_PaginationValidated ==
  (last.op \in {"getMyChatHistory", "getAllMyMessages"} /\ last.ran) =>
    LET page == ParseOr(last.arg.page, DefaultPage)
        limit == ParseOr(last.arg.limit, DefaultLimit)
    IN /\ page >= 1
       /\ limit >= 1
       /\ (page - 1) * limit >= 0
       /\ last.status = 200
       /\ last.body.pages * limit >= last.body.total
       /\ (last.body.pages - 1) * limit < last.body.total
            \/ last.body.total = 0

\* the ids of the documents an answer lists
ListedIds(body) == {body.messages[k].id : k \in 1..Len(body.messages)}
Broadcasts == {i \in StoredIds : messages[i].messageType = "broadcast"}
Unfiltered ==
  [page |-> Absent, limit |-> Absent, messageType |-> "absent",
   isRead |-> "absent"]

\* C16: my-messages without filters lists every private message the
\* requester sent or received and every broadcast; with
\* messageType=broadcast it lists the broadcasts.
C16_HistoryIncludesBroadcasts ==
  /\ (/\ last.op = "getAllMyMessages"
      /\ last.status = 200
      /\ last.arg = Unfiltered) =>
       ListedIds(last.body) =
         {i \in StoredIds : Involves(i, last.reqUser)} \cup Broadcasts
  /\ \A u \in UserIds :
       ListedIds(getAllMyMessagesIn(
                   StoredIds, u,
                   [Unfiltered EXCEPT !.messageType = "broadcast"]).body)
         = Broadcasts

\* C17: POST /api/cart/items for an existing product with a quantity above
\* its stock is answered 400, for a product that does not exist 404, and in
\* both cases the cart is left as it was.
C17_CartChecksStock ==
  [][(last'.op \in {"addToCart", "postCartItems"} /\ last'.ran) =>
       LET productId == last'.arg.productId
           quantity == last'.arg.quantity
       IN /\ (ProductExists(productId)
                /\ quantity > products[productId].stock) =>
               /\ last'.status = 400
               /\ cartVars' = cartVars
          /\ (productId # 0 /\ quantity >= 1 /\ ~ProductExists(productId)) =>
               /\ last'.status = 404
               /\ cartVars' = cartVars]_vars

ProfileRouteOps == {"updateProfile", "addAddress", "deleteAddress"}

\* C18: a profile update, add-address or delete-address for an existing
\* user, sent by another authenticated user, is answered 403 and leaves the
\* profile and the addresses of every user as they were.
C18_OwnerOnly ==
  [][(/\ last'.op \in ProfileRouteOps
      /\ last'.ran
      /\ UserExists(last'.arg.id)
      /\ last'.reqUser # last'.arg.id) =>
       /\ last'.status = 403
       /\ db' = db]_vars

\* another user was refused the deletion of an address that exists
C18_Witness ==
  /\ last.op = "deleteAddress"
  /\ last.status = 403
  /\ last.reqUser # last.arg.id
  /\ \E k \in 1..Len(addresses[last.arg.id]) :
       addresses[last.arg.id][k].id = last.arg.addressId

\* C19: the check and the decrement of an order are separate steps: a
\* request that has passed the check saw enough stock for every line item
\* when it read it, and each of its decrements then subtracts the quantity
\* from whatever stock the product has at that moment.
C19_CheckThenDecrement ==
  /\ [](\A r \in Slots :
          (orderReqs[r].pc \in {"decrement", "save"}
             \/ orderReqs[r].status = 201) =>
            /\ Len(orderReqs[r].seen) = Len(orderReqs[r].items)
            /\ \A k \in 1..Len(orderReqs[r].items) :
                 orderReqs[r].seen[k] >= orderReqs[r].items[k].quantity)
  /\ [][\A r \in Slots :
          (orderReqs[r].pc = "decrement" /\ orderReqs'[r] # orderReqs[r]) =>
            LET item == orderReqs[r].items[orderReqs[r].k]
            IN products'[item.product].stock =
                 products[item.product].stock - item.quantity]_vars

\* two orders were accepted after both had read the same stock of product 1,
\* and together they took more than that stock
C19_Witness ==
  /\ \A r \in Slots : orderReqs[r].status = 201
  /\ \E r1, r2 \in Slots :
       /\ r1 # r2
       /\ orderReqs[r1].seen[1] = orderReqs[r2].seen[1]
       /\ Ordered(orderReqs[r1].items, 1) + Ordered(orderReqs[r2].items, 1)
            > orderReqs[r1].seen[1]
  /\ ProductExists(1)
  /\ products[1].stock < 0

\* C20: when add-address requests with isDefault = true for one user have
\* interleaved in any way and all have been answered, the user has at most
\* one default address.
C20_OneDefaultUnderInterleaving ==
  (\A r \in Slots :
     /\ addrReqs[r].pc \in {"idle", "done"}
     /\ addrReqs[r].status = 200 => addrReqs[r].isDefault) =>
    \A u \in UserIds : Cardinality(Defaults(u)) <= 1

\* the requests whose save emitted message_read for message m
ReadEmits(m) == {r \in Slots : readReqs[r].id = m /\ readReqs[r].emitted}

\* C21: isRead of a stored message never goes back from true to false; a
\* mark-as-read request that finds the message already read is answered 200
\* without a save and without an emit; and message_read is emitted at most
\* once per message, however the requests of its receiver interleave.
C21_ReadOnceEmitOnce ==
  /\ [][\A m \in 1..Len(messages) :
          messages[m].isRead => messages'[m].isRead]_vars
  /\ [][(/\ last'.op = "readBegin"
         /\ last'.ran
         /\ last'.arg.id \in 1..Len(messages)
         /\ messages[last'.arg.id].receiverId = last'.reqUser
         /\ messages[last'.arg.id].isRead) =>
          /\ last'.status = 200
          /\ readReqs'[last'.arg.slot].pc = "done"
          /\ last'.event = "none"
          /\ messages' = messages]_vars
  /\ [](\A m \in 1..Len(messages) : Cardinality(ReadEmits(m)) <= 1)

SendEvents ==
  {"new_message_to_admin", "new_message_from_admin", "new_broadcast_message"}

\* C22: a send handler emits its event only for a message that an earlier
\* step has stored, and answers 201 only in the step that has emitted (when
\* the channel is attached); a request stopped by the validation of its
\* body, by the lookup of its receiver or by a failing save stores no
\* message and emits no event.
C22_PersistEmitRespond ==
  /\ [][last'.event \in SendEvents =>
          /\ last'.op = "sendFinish"
          /\ last'.body[1] \in 1..Len(messages)
          /\ messages[last'.body[1]] = sendReqs[last'.arg.slot].doc
          /\ last'.event = sendReqs[last'.arg.slot].event]_vars
  /\ [][\A r \in Slots :
          (sendReqs'[r].status = 201 /\ sendReqs[r].status # 201) =>
            /\ sendReqs[r].pc = "populate"
            /\ sendReqs[r].msgId \in 1..Len(messages)
            /\ ioSet => last'.event \in SendEvents]_vars
  /\ [][\A r \in Slots :
          (/\ sendReqs'[r].pc = "done"
           /\ sendReqs[r].pc \in {"idle", "save"}) =>
            /\ sendReqs'[r].status \in {400, 401, 403, 404, 500}
            /\ messages' = messages
            /\ last'.event = "none"]_vars
  /\ [](\A r \in Slots :
          sendReqs[r].pc = "done" /\ sendReqs[r].msgId = 0 =>
            ~sendReqs[r].emitted /\ sendReqs[r].status # 201)

\* a broadcast was stored, emitted to a connected socket and answered 201
\* while the save of another request had failed
C22_Witness ==
  /\ last.op = "sendFinish"
  /\ last.status = 201
  /\ last.event = "new_broadcast_message"
  /\ last.delivered # {}
  /\ messages[last.body[1]].messageType = "broadcast"
  /\ \E r \in Slots :
       /\ sendReqs[r].pc = "done"
       /\ sendReqs[r].status = 500
       /\ sendReqs[r].msgId = 0

\* the users whose personal room socket s is in
PersonalRooms(s) == {u \in UserIds : Room(u) \in rooms[s]}

\* C23: a socket is in no personal room or in exactly the room of the user
\* attached to it as socket.userId, and a socket in 'admins' carries the
\* identity of an admin.
C23_SingleIdentity ==
  \A s \in SocketIds :
    /\ PersonalRooms(s) = {} \/ PersonalRooms(s) = {sockUser[s]}
    /\ AdminsRoom \in rooms[s] =>
         sockUser[s] # NoUser /\ role[sockUser[s]] = "admin"

AuthAnswered(r) ==
  /\ authReqs[r].pc = "done"
  /\ authReqs[r].answers \in {<<"authenticated">>, <<"authentication_error">>}

\* C24: every 'authenticate' event the server has received is answered in
\* the end, with one 'authenticated' or one 'authentication_error' and
\* never with more; a missing payload or token, a token that does not
\* verify and a token of an unknown user are answered authentication_error
\* in a step that joins no room and attaches no identity; the step that
\* answers 'authenticated' has joined the rooms of the user.
C24_AuthenticateAnswered ==
  /\ \A r \in Slots : (authReqs[r].pc # "idle") ~> AuthAnswered(r)
  /\ [](\A r \in Slots :
          /\ Len(authReqs[r].answers) <= 1
          /\ authReqs[r].pc = "done" => AuthAnswered(r)
          /\ authReqs[r].pc = "lookup" => authReqs[r].answers = << >>)
  /\ [][\A r \in Slots :
          (authReqs'[r].pc = "done" /\ authReqs[r].pc # "done") =>
            LET q == authReqs'[r]
            IN /\ socketAuth(q.data) = NoUser =>
                    q.answers = <<"authentication_error">>
               /\ q.answers = <<"authentication_error">> =>
                    rooms' = rooms /\ sockUser' = sockUser
               /\ q.answers = <<"authenticated">> =>
                    /\ sockUser'[q.sock] = q.data.id
                    /\ JoinedRooms(q.data.id) \subseteq rooms'[q.sock]]_vars

\* a handshake with a token of an existing user was answered 'authenticated'
\* on a connected socket while another event, carrying a token of an unknown
\* user, had been answered authentication_error after its lookup
C24_Witness ==
  /\ last.op = "authFinish"
  /\ last.event = "authenticated"
  /\ last.delivered # {}
  /\ \E r \in Slots :
       /\ authReqs[r].pc = "done"
       /\ authReqs[r].data = [kind |-> "signed", id |-> UnknownId]
       /\ authReqs[r].answers = <<"authentication_error">>

TypingOps == {"typing", "stop_typing"}

\* C25: a typing indicator is relayed only for a socket that has
\* authenticated and carries the id of the user attached to that socket as
\* senderId; it is not delivered to the socket that sent it, and nothing is
\* relayed when receiverId or senderId is missing.
C25_TypingFromAuthenticated ==
  [][last'.op \in TypingOps =>
       /\ last'.event # "none" =>
            /\ sockUser[last'.arg.sock] # NoUser
            /\ last'.body = <<sockUser[last'.arg.sock]>>
            /\ last'.room = Room(last'.arg.receiverId)
            /\ last'.arg.sock \notin last'.delivered
       /\ (last'.arg.receiverId = NoUser \/ last'.arg.senderId = NoUser) =>
            last'.event = "none"]_vars

\* a line item that names no product or asks for more than is in stock
Unservable(item) ==
  \/ ~ProductExists(item.product)
  \/ products[item.product].stock < item.quantity

\* C26: an order whose shipping address or payment method is invalid is
\* answered 400, and one with a line item that names a missing product or
\* asks for more than the stock is answered 404 or 400; in each case the
\* stock of every product and the orders collection stay as they were.
C26_ValidatedBeforeWrites ==
  [][last'.op = "createOrder" =>
       /\ (~last'.arg.addressOk \/ ~last'.arg.paymentOk) =>
            last'.status = 400
       /\ (\/ ~last'.arg.addressOk
           \/ ~last'.arg.paymentOk
           \/ \E k \in 1..Len(last'.arg.items) :
                Unservable(last'.arg.items[k])) =>
            /\ last'.status \in {400, 404}
            /\ products' = products
            /\ orders' = orders]_vars

\* an order whose first line could be served and whose second line names a
\* missing product was answered 404
C26_Witness ==
  /\ last.op = "createOrder"
  /\ last.status = 404
  /\ Len(last.arg.items) = 2
  /\ last.arg.items[1].quantity >= 1
  /\ ~Unservable(last.arg.items[1])
  /\ ~ProductExists(last.arg.items[2].product)

RECURSIVE Logged(_, _)
Logged(h, k) ==
  IF k > Len(h) THEN 0
  ELSE (IF h[k].type \in {"added", "returned"} THEN h[k].quantity
        ELSE -h[k].quantity) + Logged(h, k + 1)

\* C28: the stock of every product is the stock it was created with plus
\* what its quantityHistory adds up to.
C28_StockMatchesHistory ==
  \A p \in 1..Len(products) :
    products[p].exists =>
      products[p].stock =
        products[p].initialStock + Logged(products[p].quantityHistory, 1)

\* C29: every stored product has maxOrderQuantity >= minOrderQuantity.
C29_MaxAtLeastMin ==
  \A p \in 1..Len(products) :
    products[p].exists =>
      products[p].maxOrderQuantity >= products[p].minOrderQuantity

\* C30: a user with at least one address has exactly one default address;
\* the first address a user adds is stored as the default whatever isDefault
\* the request carried; and once the default address is deleted while others
\* remain, the first remaining address is the default in the stored record.
C30_ExactlyOneDefault ==
  /\ [](\A u \in UserIds :
          Len(addresses[u]) >= 1 => Cardinality(Defaults(u)) = 1)
  /\ [][(/\ last'.op = "addAddress"
         /\ last'.status = 200
         /\ addresses[last'.arg.id] = << >>) =>
          /\ Len(addresses'[last'.arg.id]) = 1
          /\ addresses'[last'.arg.id][1].isDefault]_vars
  /\ [][(/\ last'.op = "deleteAddress"
         /\ last'.status = 200
         /\ Len(addresses[last'.arg.id]) > 1
         /\ \E k \in 1..Len(addresses[last'.arg.id]) :
              /\ addresses[last'.arg.id][k].id = last'.arg.addressId
              /\ addresses[last'.arg.id][k].isDefault) =>
          addresses'[last'.arg.id][1].isDefault]_vars

====
